---- MODULE Spec2Model ----
(***************************************************************************)
(* A model of the WireGuard manager's configuration reconciliation engine  *)
(* (backend/services, backend/utils/lock.py): the folder form (one         *)
(* fragment file per interface and per peer), the canonical flat file,     *)
(* the advisory flock locks, and the API operations that move data between *)
(* them, each cut into the steps at which another request can interleave.  *)
(*                                                                         *)
(* Strings are sequences of tokens (a key, an address, "/", "32", ",").    *)
(* A file is the sequence of its lines; parse_config and write_config are  *)
(* operators over lines, as in services/config.py.                         *)
(***************************************************************************)
EXTENDS Integers, Sequences, FiniteSets, TLC

\* ------------------------------------------------------------------ bounds

\* API operations started in one behaviour of Spec (concurrent requests).
MaxOps == 3
\* API operations started in one behaviour of SeqSpec (one request at a time).
SeqOps == 6
\* API operations started in one behaviour of PeerSpec (one request at a time).
PeerOps == 4
\* API operations started in one behaviour of CfgSpec (one request at a time).
CfgOps == 5
\* API operations started in one behaviour of ReadSpec (one request at a time).
ReadOps == 4
\* API operations started in one behaviour of RaceSpec (concurrent requests).
RaceOps == 3
\* Calls of write_config in one behaviour of WriteSpec.
WriteOps == 3
\* Requests the workers handle in all under fair scheduling.
FairOps == 3
\* Requests handled on files an administrator has edited.
EditOps == 2
\* Requests handled with an AllowedIPs value outside the interface's network.
UpdOps == 3
\* AllowedIPs values normalized in a behaviour.
NormOps == 2
\* Lines of a file given to parse_config, and the files parsed in a behaviour.
ParseLen == 3
ParseOps == 1

\* ----------------------------------------------------------------- strings

\* Python's None, as opposed to the empty string <<>>.
None == <<"None">>

Str(s) == <<s>>

\* Python truthiness of an optional string: None and "" are falsy.
Truthy(v) == v # None /\ v # <<>>

RECURSIVE Strip(_)
\* str.strip(): leading and trailing blanks removed.
Strip(s) ==
    IF s = <<>> THEN s
    ELSE IF Head(s) = " " THEN Strip(Tail(s))
    ELSE IF s[Len(s)] = " " THEN Strip(SubSeq(s, 1, Len(s) - 1))
    ELSE s

Contains(s, tok) == \E n \in 1..Len(s) : s[n] = tok

RECURSIVE SplitOn(_, _, _, _)
\* str.split(sep) for the separators in seps: the parts between them.
SplitOn(s, seps, cur, acc) ==
    IF s = <<>> THEN Append(acc, cur)
    ELSE IF Head(s) \in seps THEN SplitOn(Tail(s), seps, <<>>, Append(acc, cur))
    ELSE SplitOn(Tail(s), seps, Append(cur, Head(s)), acc)

Split(s, seps) == SplitOn(s, seps, <<>>, <<>>)

RECURSIVE Join(_, _)
\* sep.join(parts)
Join(parts, sep) ==
    IF parts = <<>> THEN <<>>
    ELSE IF Len(parts) = 1 THEN parts[1]
    ELSE parts[1] \o <<sep>> \o Join(Tail(parts), sep)

RECURSIVE SelectNonEmpty(_)
SelectNonEmpty(parts) ==
    IF parts = <<>> THEN <<>>
    ELSE IF Head(parts) = <<>> THEN SelectNonEmpty(Tail(parts))
    ELSE <<Head(parts)>> \o SelectNonEmpty(Tail(parts))

\* ------------------------------------------------------------------- dicts

\* A Python dict: its (key, value) pairs in insertion order.
HasKey(d, k) == \E n \in 1..Len(d) : d[n].k = k

\* dict.get(k): the value, or None.
Get(d, k) ==
    IF HasKey(d, k) THEN d[CHOOSE n \in 1..Len(d) : d[n].k = k].v ELSE None

\* d[k] = v: in place when the key is there, appended otherwise.
Put(d, k, v) ==
    IF HasKey(d, k)
    THEN [n \in 1..Len(d) |-> IF d[n].k = k THEN [k |-> k, v |-> v] ELSE d[n]]
    ELSE Append(d, [k |-> k, v |-> v])

RECURSIVE Del(_, _)
\* del d[k] (no error when absent: every caller checks first)
Del(d, k) ==
    IF d = <<>> THEN <<>>
    ELSE IF Head(d).k = k THEN Del(Tail(d), k)
    ELSE <<Head(d)>> \o Del(Tail(d), k)

\* {k: v for k, v in peer.items() if k != '_name'}
StripName(d) == Del(d, "_name")

\* A dict as the set of its pairs: equality of records whatever the key order.
Pairs(d) == {d[n] : n \in 1..Len(d)}

\* ------------------------------------------------------------------- lines

SecLine(name) == [t |-> "sec", k |-> name, v |-> <<>>]
KvLine(k, v) == [t |-> "kv", k |-> k, v |-> v]
CmtLine(text) == [t |-> "cmt", k |-> "", v |-> text]
BlankLine == [t |-> "blank", k |-> "", v |-> <<>>]

KvLines(d) == [n \in 1..Len(d) |-> KvLine(d[n].k, d[n].v)]

RECURSIVE TruthyKvLines(_)
\* for key, value in peer.items(): if value: write
TruthyKvLines(d) ==
    IF d = <<>> THEN <<>>
    ELSE (IF Truthy(Head(d).v) THEN <<KvLine(Head(d).k, Head(d).v)>> ELSE <<>>)
         \o TruthyKvLines(Tail(d))

RECURSIVE PeerLines(_, _, _)
PeerLines(peers, idx, peer_name) ==
    IF idx > Len(peers) THEN <<>>
    ELSE (IF Truthy(peer_name) /\ idx = 1
          THEN <<BlankLine, CmtLine(peer_name)>> ELSE <<>>)
         \o <<SecLine("Peer")>>
         \o TruthyKvLines(peers[idx])
         \o PeerLines(peers, idx + 1, peer_name)

\* The text write_config writes for config_data.
write_config(config_data, peer_name) ==
    (IF config_data.Interface # <<>>
     THEN <<SecLine("Interface")>> \o KvLines(config_data.Interface)
     ELSE <<>>)
    \o PeerLines(config_data.Peers, 1, peer_name)

\* The parser's state before the first line.
ParseStart ==
    [Interface |-> <<>>, Peers |-> <<>>, section |-> "none",
     current_peer |-> <<>>, pending |-> None, last_cmt |-> FALSE]

\* One line of parse_config's loop.
ParseLine(st, line) ==
    CASE line.t = "blank" ->
           [st EXCEPT !.pending = IF st.last_cmt /\ Truthy(st.pending)
                                  THEN None ELSE @,
                      !.last_cmt = FALSE]
      [] line.t = "cmt" ->
           IF st.section # "Interface" /\ Strip(line.v) # <<>>
           THEN [st EXCEPT !.pending = Strip(line.v), !.last_cmt = TRUE]
           ELSE st
      [] line.t = "sec" /\ line.k = "Interface" ->
           [st EXCEPT !.section = "Interface", !.pending = None,
                      !.last_cmt = FALSE]
      [] line.t = "sec" /\ line.k = "Peer" ->
           [st EXCEPT !.Peers = IF st.current_peer # <<>>
                                THEN Append(@, st.current_peer) ELSE @,
                      !.current_peer = IF Truthy(st.pending)
                                       THEN <<[k |-> "_name", v |-> st.pending]>>
                                       ELSE <<>>,
                      !.pending = None,
                      !.section = "Peer",
                      !.last_cmt = FALSE]
      [] line.t = "kv" ->
           CASE st.section = "Interface" ->
                  [st EXCEPT !.Interface = Put(@, line.k, Strip(line.v)),
                             !.last_cmt = FALSE]
             [] st.section = "Peer" ->
                  [st EXCEPT !.current_peer = Put(@, line.k, Strip(line.v)),
                             !.last_cmt = FALSE]
             [] OTHER -> [st EXCEPT !.last_cmt = FALSE]
      [] OTHER -> [st EXCEPT !.last_cmt = FALSE]

RECURSIVE ParseLines(_, _)
ParseLines(st, lines) ==
    IF lines = <<>> THEN st ELSE ParseLines(ParseLine(st, Head(lines)), Tail(lines))

\* parse_config of a file that exists, given its lines.
parse_config(lines) ==
    LET st == ParseLines(ParseStart, lines)
    IN  [Interface |-> st.Interface,
         Peers |-> IF st.current_peer # <<>>
                   THEN Append(st.Peers, st.current_peer) ELSE st.Peers]

\* --------------------------------------------------------------- addresses

\* The dotted-decimal tokens of the model and the octets each one spells.
OctetTable ==
    ("10.0.0.0" :> <<10, 0, 0, 0>>) @@ ("10.0.0.1" :> <<10, 0, 0, 1>>) @@
    ("10.0.0.2" :> <<10, 0, 0, 2>>) @@ ("10.0.0.3" :> <<10, 0, 0, 3>>) @@
    ("10.0.0.4" :> <<10, 0, 0, 4>>) @@ ("10.0.0.5" :> <<10, 0, 0, 5>>) @@
    ("10.0.0.6" :> <<10, 0, 0, 6>>) @@ ("10.0.0.7" :> <<10, 0, 0, 7>>) @@
    ("10.9.0.2" :> <<10, 9, 0, 2>>) @@ ("10.0.1.1" :> <<10, 0, 1, 1>>) @@
    ("10.0.0" :> <<10, 0, 0>>) @@ ("10.0" :> <<10, 0>>) @@ ("10.9" :> <<10, 9>>)

PfxTable ==
    ("32" :> 32) @@ ("31" :> 31) @@ ("30" :> 30) @@ ("29" :> 29) @@
    ("24" :> 24) @@ ("16" :> 16)

RECURSIVE Pow2(_)
Pow2(n) == IF n = 0 THEN 1 ELSE 2 * Pow2(n - 1)

\* The integer of four octets (as int(IPv4Address)), less that of 10.0.0.0.
IpFromOctets(o) == (o[1] - 10) * Pow2(24) + o[2] * Pow2(16) + o[3] * Pow2(8) + o[4]

IsAddrTok(tok) == tok \in DOMAIN OctetTable /\ Len(OctetTable[tok]) = 4

\* str(IPv4Address(n)) for the addresses the model can print.
HostTok(n) ==
    CHOOSE tok \in DOMAIN OctetTable :
        Len(OctetTable[tok]) = 4 /\ IpFromOctets(OctetTable[tok]) = n

\* IPv4Network(address/prefix, strict=False): host bits masked off.
Network(a, p) == [base |-> a - (a % Pow2(32 - p)), pfx |-> p]

\* ipaddress.ip_interface(s): address, or address/prefix; ok = no ValueError.
ip_interface(s) ==
    IF Len(s) = 1 /\ IsAddrTok(s[1])
    THEN [ok |-> TRUE, ip |-> IpFromOctets(OctetTable[s[1]]), pfx |-> 32]
    ELSE IF Len(s) = 3 /\ IsAddrTok(s[1]) /\ s[2] = "/" /\ s[3] \in DOMAIN PfxTable
    THEN [ok |-> TRUE, ip |-> IpFromOctets(OctetTable[s[1]]), pfx |-> PfxTable[s[3]]]
    ELSE [ok |-> FALSE, ip |-> 0, pfx |-> 0]

\* ipaddress.ip_network(s, strict=False)
ip_network(s) ==
    LET i == ip_interface(s)
    IN  [ok |-> i.ok, net |-> Network(i.ip, i.pfx)]

\* A containment test that also accepts a network containing b.
SharesPrefix(a, b) ==
    LET p == IF a.pfx < b.pfx THEN a.pfx ELSE b.pfx
    IN  Network(a.base, p).base = Network(b.base, p).base

\* a.subnet_of(b)
subnet_of(a, b) == b.pfx <= a.pfx /\ Network(a.base, b.pfx).base = b.base

\* An overlap test every pair of networks passes.
OverlapsAnything(a, b) == TRUE

\* a.overlaps(b)
overlaps(a, b) == subnet_of(a, b) \/ subnet_of(b, a)

\* The first and last address of network.hosts().
FirstHost(net) == IF net.pfx >= 31 THEN net.base ELSE net.base + 1
LastHost(net) ==
    IF net.pfx >= 31 THEN net.base + Pow2(32 - net.pfx) - 1
    ELSE net.base + Pow2(32 - net.pfx) - 2

\* A scan that takes the first host whether or not it is in use.
ScanIgnoringUsed(h, last, used) == h

RECURSIVE ScanHosts(_, _, _)
\* for host in target_network.hosts(): if host not in used_ips: found; -1: none.
ScanHosts(h, last, used) ==
    IF h > last THEN -1
    ELSE IF h \notin used THEN h
    ELSE ScanHosts(h + 1, last, used)

\* ",".join([a.strip() for a in allowed_ips.split(',') if a.strip()])
CommaNormalize(s) ==
    LET parts == Split(s, {","})
    IN  Join(SelectNonEmpty([n \in 1..Len(parts) |-> Strip(parts[n])]), ",")

\* validate_ip_address(address, allow_multiple): TRUE when it raises nothing.
validate_ip_address(address, allow_multiple) ==
    IF ~Truthy(address) THEN TRUE
    ELSE IF ~allow_multiple /\ Contains(address, ",") THEN FALSE
    ELSE LET parts == Split(address, {","})
         IN  \A n \in 1..Len(parts) :
                Strip(parts[n]) = <<>> \/ ip_interface(Strip(parts[n])).ok

\* Entries are compared as Python compares the strings: token by token, a
\* proper prefix first. Tokens of the model compare as their text does.
TokRank(tok) ==
    CASE tok = " " -> 0
      [] tok = "," -> 1
      [] tok = "/" -> 2
      [] tok \in DOMAIN PfxTable -> 3 + PfxTable[tok]
      [] IsAddrTok(tok) -> 1000 + IpFromOctets(OctetTable[tok])
      [] tok = "fd00::2" -> 2000000
      [] OTHER -> 999

RECURSIVE StrLess(_, _)
StrLess(a, b) ==
    IF b = <<>> THEN FALSE
    ELSE IF a = <<>> THEN TRUE
    ELSE IF Head(a) = Head(b) THEN StrLess(Tail(a), Tail(b))
    ELSE TokRank(Head(a)) < TokRank(Head(b))

RECURSIVE InsertSorted(_, _)
InsertSorted(x, sorted) ==
    IF sorted = <<>> THEN <<x>>
    ELSE IF StrLess(Head(sorted), x) \/ Head(sorted) = x
    THEN <<Head(sorted)>> \o InsertSorted(x, Tail(sorted))
    ELSE <<x>> \o sorted

RECURSIVE SortStrs(_)
\* sorted(parts)
SortStrs(parts) ==
    IF parts = <<>> THEN <<>> ELSE InsertSorted(Head(parts), SortStrs(Tail(parts)))

\* ':' in ip: the entry is an IPv6 address.
HasColon(ip) == Contains(ip, "fd00::2")

\* A normalization that keeps the entries in the order given.
NormalizeUnsorted(ips) ==
    IF ~Truthy(ips) THEN <<>>
    ELSE LET parts == SelectNonEmpty(Split(ips, {",", " "}))
             withPfx == [n \in 1..Len(parts) |->
                            IF Contains(parts[n], "/") THEN parts[n]
                            ELSE IF HasColon(parts[n]) THEN parts[n] \o <<"/", "128">>
                            ELSE parts[n] \o <<"/", "32">>]
         IN  Join(withPfx, ",")

\* ConfigService._normalize_allowed_ips
normalize_allowed_ips(ips) ==
    IF ~Truthy(ips) THEN <<>>
    ELSE LET parts == SelectNonEmpty(Split(ips, {",", " "}))
             withPfx == [n \in 1..Len(parts) |->
                            IF Contains(parts[n], "/") THEN parts[n]
                            ELSE IF HasColon(parts[n]) THEN parts[n] \o <<"/", "128">>
                            ELSE parts[n] \o <<"/", "32">>]
         IN  Join(SortStrs(withPfx), ",")

\* ------------------------------------------------------------------ inputs

\* The request-handling workers.
Procs == {"p1", "p2"}

\* Keys "wg genkey" and "wg pubkey" hand out, in order: never the same twice.
PrivKeys == <<"priv1", "priv2", "priv3", "priv4", "priv5", "priv6", "priv7", "priv8">>
PubKeys == <<"pub1", "pub2", "pub3", "pub4", "pub5", "pub6", "pub7", "pub8">>

\* f"peer{idx + 1}"
GeneratedName(n) ==
    CASE n = 1 -> "peer1" [] n = 2 -> "peer2" [] n = 3 -> "peer3"
      [] n = 4 -> "peer4" [] OTHER -> "peerN"

\* The requests of the concurrent specification.
ConcIn ==
    [ifs |-> {"wg0", "wg1"},
     names |-> {"a"},
     address |-> <<"10.0.0.1", "/", "29">>,
     listen_port |-> <<"51820">>,
     addips |-> {None, <<"10.0.0.2", "/", "32">>},
     addkeys |-> {None},
     upd |-> {[allowed_ips |-> <<"10.0.0.3">>, new_name |-> None, public_key |-> None],
              [allowed_ips |-> None, new_name |-> <<"b">>, public_key |-> None]},
     ports |-> {<<"51821">>}]

\* The requests of the specification with fair scheduling.
FairIn ==
    [ifs |-> {"wg0"},
     names |-> {"a"},
     address |-> <<"10.0.0.1", "/", "29">>,
     listen_port |-> <<"51820">>,
     addips |-> {None},
     addkeys |-> {None},
     upd |-> {[allowed_ips |-> <<"10.0.0.3">>, new_name |-> None, public_key |-> None]},
     ports |-> {<<"51821">>}]

\* The requests on files an administrator has edited.
EditIn == [ifs |-> {"wg0"}]

\* The peers of the edited files: a public key and an AllowedIPs value.
EditPeers ==
    {<<[k |-> "PublicKey", v |-> <<key>>], [k |-> "AllowedIPs", v |-> ips]>> :
        key \in {"pub1", "pub2", "U1"},
        ips \in {<<"10.0.0.2", "/", "32">>, <<"10.0.0.3">>}}

\* A canonical file with two peers, each with or without a name comment
\* on the line before its [Peer] header.
EditCanons ==
    {<<[t |-> "sec", k |-> "Interface", v |-> <<>>],
       [t |-> "kv", k |-> "Address", v |-> <<"10.0.0.1", "/", "29">>]>>
     \o (IF c1 = <<>> THEN <<>> ELSE <<[t |-> "blank", k |-> "", v |-> <<>>],
                                       [t |-> "cmt", k |-> "", v |-> c1]>>)
     \o <<[t |-> "sec", k |-> "Peer", v |-> <<>>]>>
     \o [n \in 1..2 |-> [t |-> "kv", k |-> p1[n].k, v |-> p1[n].v]]
     \o (IF c2 = <<>> THEN <<>> ELSE <<[t |-> "cmt", k |-> "", v |-> c2]>>)
     \o <<[t |-> "sec", k |-> "Peer", v |-> <<>>]>>
     \o [n \in 1..2 |-> [t |-> "kv", k |-> p2[n].k, v |-> p2[n].v]] :
        c1 \in {<<>>, <<"c">>}, c2 \in {<<>>, <<"b">>},
        p1 \in EditPeers, p2 \in EditPeers}

\* The peer fragments an interface folder may hold, by name.
EditFragments ==
    [a |-> <<[k |-> "PublicKey", v |-> <<"pub1">>],
             [k |-> "AllowedIPs", v |-> <<"10.0.0.2", "/", "32">>]>>,
     b |-> <<[k |-> "PublicKey", v |-> <<"pub2">>],
             [k |-> "AllowedIPs", v |-> <<"10.0.0.3", "/", "32">>]>>,
     peer2 |-> <<[k |-> "PublicKey", v |-> <<"pub2">>],
                 [k |-> "AllowedIPs", v |-> <<"10.0.0.2", "/", "32">>]>>]

\* The lines of the files given to parse_config: a blank line, a comment with
\* and without text, the two section headers, a key = value line, other text.
ParseAlphabet ==
    {[t |-> "blank", k |-> "", v |-> <<>>],
     [t |-> "cmt", k |-> "", v |-> <<"a">>],
     [t |-> "cmt", k |-> "", v |-> <<>>],
     [t |-> "sec", k |-> "Interface", v |-> <<>>],
     [t |-> "sec", k |-> "Peer", v |-> <<>>],
     [t |-> "kv", k |-> "PublicKey", v |-> <<"pub1">>],
     [t |-> "other", k |-> "", v |-> <<"x">>]}

ParseFiles == UNION {[1..n -> ParseAlphabet] : n \in 0..ParseLen}

\* The requests with an AllowedIPs value outside the interface's network
\* 10.0.0.0/29.
UpdIn ==
    [ifs |-> {"wg0"},
     names |-> {"a", "b"},
     address |-> <<"10.0.0.1", "/", "29">>,
     listen_port |-> <<"51820">>,
     addips |-> {None, <<"10.9.0.2", "/", "32">>},
     addkeys |-> {None},
     upd |-> {[allowed_ips |-> <<"10.9.0.2", "/", "32">>, new_name |-> None,
               public_key |-> None]},
     ports |-> {<<"51821">>}]

\* The entries of the AllowedIPs values given to the normalizations: bare
\* IPv4 and IPv6 addresses, networks, a network with host bits set.
NormEntries ==
    {<<"10.0.0.2">>, <<"10.0.0.2", "/", "32">>, <<"10.0.0.3", "/", "32">>,
     <<"10.0.0.5", "/", "24">>, <<"fd00::2">>}

\* The AllowedIPs values: empty, one entry, or two entries separated by a
\* comma, a comma and a blank, or a blank.
NormInputs ==
    {<<>>} \cup NormEntries
    \cup {e1 \o sep \o e2 :
            e1 \in NormEntries, e2 \in NormEntries,
            sep \in {<<",">>, <<",", " ">>, <<" ">>}}

\* The requests of the sequential specification.
SeqIn ==
    [ifs |-> {"wg0"},
     names |-> {"a", "b"},
     address |-> <<"10.0.0.1", "/", "29">>,
     listen_port |-> <<"51820">>,
     addips |-> {None, <<"10.0.0.2", "/", "32">>},
     addkeys |-> {None, <<"U1">>},
     upd |-> {[allowed_ips |-> <<"10.0.0.2">>, new_name |-> None, public_key |-> None],
              [allowed_ips |-> None, new_name |-> None, public_key |-> <<>>],
              [allowed_ips |-> None, new_name |-> None, public_key |-> <<"U1">>],
              [allowed_ips |-> None, new_name |-> <<"b">>, public_key |-> None]},
     ports |-> {<<"51821">>}]

\* The requests of the specification of the diff and apply operations.
CfgIn ==
    [ifs |-> {"wg0"},
     names |-> {"a", "b"},
     address |-> <<"10.0.0.1", "/", "29">>,
     listen_port |-> <<"51820">>,
     addips |-> {None},
     addkeys |-> {None},
     upd |-> {[allowed_ips |-> <<"10.0.0.2">>, new_name |-> None, public_key |-> None],
              [allowed_ips |-> None, new_name |-> None, public_key |-> <<>>]},
     ports |-> {<<"51821">>}]

\* The requests of the specification of add_peer's address handling: an
\* interface 10.0.0.1/24 and every form of the allowed_ips argument.
PeerIn ==
    [ifs |-> {"wg0"},
     names |-> {"a", "b"},
     address |-> <<"10.0.0.1", "/", "24">>,
     listen_port |-> <<"51820">>,
     addips |-> {None,
                 <<"10.0.0">>,
                 <<"10.0.0.0", "/", "30">>,
                 <<"10.0.0.4", "/", "30">>,
                 <<"10.0">>,
                 <<"10.9">>,
                 <<"10.9.0.2", "/", "32">>,
                 <<" ", "10.9.0.2", "/", "32", " ", ",", " ", "10.0.0.2">>},
     addkeys |-> {None},
     upd |-> {[allowed_ips |-> <<"10.0.0.3">>, new_name |-> None, public_key |-> None]},
     ports |-> {<<"51821">>}]

\* What subprocess.run of wg show can do: print the interface, with or
\* without its peers and text on stderr, exit non-zero, or not start at all.
ShowOutcomes ==
    LET interface == <<[k |-> "interface", v |-> <<"wg0">>],
                       [k |-> "public key", v |-> <<"pub1">>],
                       [k |-> "private key", v |-> <<"(hidden)">>],
                       [k |-> "listening port", v |-> <<"51820">>]>>
        peer == <<[k |-> "peer", v |-> <<"pub2">>],
                  [k |-> "allowed ips", v |-> <<"10.0.0.2", "/", "32">>],
                  [k |-> "latest handshake", v |-> <<"0">>]>>
        Exits(stderr) == [kind |-> "CalledProcessError", stdout |-> <<>>, stderr |-> stderr]
    IN  {[kind |-> "ok", stdout |-> interface, stderr |-> <<>>],
         [kind |-> "ok", stdout |-> interface \o peer,
          stderr |-> <<"Warning: ", "key is world accessible">>],
         Exits(<<"Unable to access interface: ", "No such device">>),
         Exits(<<"Device ", "Does Not Exist">>),
         Exits(<<"interface wg0 ", "does not exist">>),
         Exits(<<"Unable to access interface: ", "Protocol not supported">>),
         Exits(<<"Unable to access interface: ", "Operation not permitted">>),
         Exits(<<"sudo: ", "Permission denied">>),
         Exits(<<>>),
         [kind |-> "FileNotFoundError", stdout |-> <<>>, stderr |-> <<>>],
         [kind |-> "PermissionError", stdout |-> <<>>, stderr |-> <<>>]}

\* The requests of the specification of concurrent peer operations: one
\* interface, two peer names, addresses left to add_peer.
RaceIn ==
    [ifs |-> {"wg0"},
     names |-> {"a", "b"},
     address |-> <<"10.0.0.1", "/", "29">>,
     listen_port |-> <<"51820">>,
     addips |-> {None},
     addkeys |-> {None},
     upd |-> {[allowed_ips |-> <<"10.0.0.3">>, new_name |-> None, public_key |-> None]},
     ports |-> {<<"51821">>},
     show |-> {r \in ShowOutcomes : r.stdout # <<>> /\ r.stderr = <<>>}]

\* The requests of the specification of the reading operations.
ReadIn ==
    [ifs |-> {"wg0"},
     names |-> {"a", "b"},
     address |-> <<"10.0.0.1", "/", "29">>,
     listen_port |-> <<"51820">>,
     addips |-> {None},
     addkeys |-> {None},
     upd |-> {[allowed_ips |-> <<"10.0.0.2">>, new_name |-> None, public_key |-> None]},
     ports |-> {<<"51821">>},
     show |-> ShowOutcomes]

\* Every interface name a request can carry.
IfNames ==
    ConcIn.ifs \cup SeqIn.ifs \cup PeerIn.ifs \cup CfgIn.ifs \cup ReadIn.ifs \cup RaceIn.ifs

\* ------------------------------------------------------------------- state

VARIABLES
    dirs,     \* the interface folders {base}/{name}/ that exist
    folder,   \* folder[i]: the .conf files of {base}/{i}/, stem |-> lines
    canon,    \* the canonical files {base}/{i}.conf that exist, i |-> lines
    flocks,   \* the flock()s held: [p |-> worker, file |-> lock marker path]
    keygen,   \* key pairs generated so far
    pc,       \* pc[p]: where worker p is in its request
    loc,      \* loc[p]: the request's arguments and local variables
    ops,      \* requests that may still be started
    last,     \* last[p]: the request p finished last, and its result
    lastRes,  \* lastRes[i]: result of the request on interface i that ended last
    ncreated, \* ncreated[i]: create_interface calls that made {base}/{i}/ since it was last removed
    rt,       \* rt[i]: progress of a sync, reset, sync sequence on i, with the first sync's output
    tmp,      \* the temp files {base}/{i}.conf.tmp that exist, i |-> [lines, mode]
    use_systemd \* ConfigService.use_systemd

vars == <<dirs, folder, canon, flocks, keygen, pc, loc, ops, last, lastRes, ncreated, rt,
          tmp, use_systemd>>

NoFiles == [x \in {} |-> <<>>]

Idle ==
    [op |-> "none", i |-> "", n |-> "", a |-> <<>>, after |-> "", cfg |-> <<>>,
     by_key |-> <<>>, by_ips |-> <<>>, ow |-> FALSE, ret |-> <<>>]

NoRt ==
    [stage |-> 0, recs |-> <<>>, names |-> {}, pure |-> FALSE, snap_pure |-> FALSE,
     diffed |-> FALSE]

\* No request has been received, no lock is held, no temp file is left.
NoRequest ==
    /\ flocks = {}
    /\ keygen = 0
    /\ pc = [p \in Procs |-> "idle"]
    /\ loc = [p \in Procs |-> Idle]
    /\ last = [p \in Procs |-> [op |-> "none", i |-> "", n |-> "", res |-> "none",
                               ow |-> FALSE, a |-> <<>>, out |-> <<>>]]
    /\ lastRes = [i \in IfNames |-> "none"]
    /\ ncreated = [i \in IfNames |-> 0]
    /\ rt = [i \in IfNames |-> NoRt]
    /\ tmp = NoFiles

\* An empty base directory.
Base ==
    /\ dirs = {}
    /\ folder = [i \in IfNames |-> NoFiles]
    /\ canon = NoFiles
    /\ NoRequest

\* config_service = ConfigService(BASE_DIR): use_systemd defaults to True.
Init == Base /\ ops = MaxOps /\ use_systemd = TRUE

SeqInit == Base /\ ops = SeqOps /\ use_systemd = TRUE

PeerInit == Base /\ ops = PeerOps /\ use_systemd = TRUE

ReadInit == Base /\ ops = ReadOps /\ use_systemd = TRUE

WriteInit == Base /\ ops = WriteOps /\ use_systemd = TRUE

FairInit == Base /\ ops = FairOps /\ use_systemd = TRUE

\* An interface folder as reset_config writes it, next to a canonical file an
\* administrator has edited since.
EditInit ==
    /\ dirs = {"wg0"}
    /\ \E names \in SUBSET DOMAIN EditFragments :
          folder = [i \in IfNames |->
                      IF i # "wg0" THEN NoFiles
                      ELSE [x \in names \cup {"wg0"} |->
                              IF x = "wg0"
                              THEN write_config(
                                     [Interface |-> <<[k |-> "Address",
                                                       v |-> <<"10.0.0.1", "/", "29">>]>>,
                                      Peers |-> <<>>], None)
                              ELSE write_config([Interface |-> <<>>,
                                                 Peers |-> <<EditFragments[x]>>],
                                                Str(x))]]
    /\ \E text \in EditCanons : canon = [x \in {"wg0"} |-> text]
    /\ NoRequest
    /\ ops = EditOps
    /\ use_systemd = TRUE

\* A file of the base directory that parse_config is given.
ParseInit ==
    /\ dirs = {}
    /\ folder = [i \in IfNames |-> NoFiles]
    /\ \E lines \in ParseFiles : canon = [x \in {"wg0"} |-> lines]
    /\ NoRequest
    /\ ops = ParseOps
    /\ use_systemd = TRUE

UpdInit == Base /\ ops = UpdOps /\ use_systemd = TRUE

NormInit == Base /\ ops = NormOps /\ use_systemd = TRUE

RaceInit == Base /\ ops = RaceOps /\ use_systemd = TRUE

\* ConfigService(base_dir, use_systemd): either mechanism may be configured.
CfgInit == Base /\ ops = CfgOps /\ use_systemd \in BOOLEAN

\* ------------------------------------------------------------------- paths

\* One canonical path, and so one lock key, for every interface.
SharedConfigPath(interface) == <<"base", "/", "wg", ".conf">>

\* os.path.join(self.base_dir, f"{interface}.conf")
final_config_path(interface) == <<"base", "/", interface, ".conf">>

\* An update_interface that takes its lock on the canonical path.
LockOnCanonicalPath(interface) == <<"base", "/", interface, ".conf">>

\* os.path.join(interface_dir, f"{interface}.conf")
interface_config_path(interface) == <<"base", "/", interface, "/", interface, ".conf">>

\* os.path.join(self.base_dir, ".manager.lock")
manager_lock == <<"base", "/", ".manager.lock">>

\* f"{lock_path}.lock"
lock_file(lock_path) == lock_path \o <<".lock">>

\* ------------------------------------------------------------------- locks

\* A flock that excludes nobody (what LOCK_SH would give two writers).
FlockShared(file) == TRUE

\* fcntl.flock(f, fcntl.LOCK_EX) returns: nobody holds a lock on the file.
FlockEx(file) == \A h \in flocks : h.file # file

\* The with-block is left without the finally clause running on an exception.
UnlockUnlessRaised(p, lock_path, raised) ==
    IF raised THEN flocks ELSE flocks \ {[p |-> p, file |-> lock_file(lock_path)]}

\* finally: fcntl.flock(f, fcntl.LOCK_UN); f.close() -- on every way out.
Unlock(p, lock_path, raised) == flocks \ {[p |-> p, file |-> lock_file(lock_path)]}

\* with acquire_write_lock(lock_path): entered.
Lock(p, lock_path) ==
    /\ FlockEx(lock_file(lock_path))
    /\ flocks' = flocks \cup {[p |-> p, file |-> lock_file(lock_path)]}

\* shutil.rmtree(interface_dir) unlinks the lock marker inside the folder: a
\* flock held on the unlinked file excludes nobody who opens the path anew.
RmtreeLocks(i) == {h \in flocks : h.file # lock_file(interface_config_path(i))}

\* ------------------------------------------------------------ bookkeeping

Perms(S) == {f \in [1..Cardinality(S) -> S] : \A a, b \in DOMAIN f : f[a] = f[b] => a = b}

\* A sequence as a multiset: element |-> number of occurrences.
BagOf(seq) ==
    [x \in {seq[n] : n \in 1..Len(seq)} |-> Cardinality({n \in 1..Len(seq) : seq[n] = x})]

\* What a config says, whatever the order of keys and of peers.
Records(config) ==
    [Interface |-> Pairs(config.Interface),
     Peers |-> BagOf([n \in 1..Len(config.Peers) |-> Pairs(StripName(config.Peers[n]))])]

\* The peer fragments of a folder: every .conf but the interface's own.
PeerStems(i, fold) == DOMAIN fold \ {i}

\* sorted(names): the fragment names of the model in ascending order of their
\* file names (a.conf < b.conf < peer1.conf < ...), those of S kept.
SortedStems(S) ==
    SelectSeq(<<"a", "b", "peer1", "peer2", "peer3", "peer4", "peerN">>,
              LAMBDA stem : stem \in S)

\* The (logical name, PublicKey) pairs of a folder.
NameKeys(i, fold) ==
    {<<n, Get(parse_config(fold[n]).Peers[1], "PublicKey")>> :
        n \in {m \in PeerStems(i, fold) : parse_config(fold[m]).Peers # <<>>}}

\* The sync, reset, sync bookkeeping when request op on i ends with res.
RtNext(op, i, res) ==
    LET r == [rt[i] EXCEPT !.diffed = FALSE]
    IN  CASE op = "sync_config" /\ res = "ok" /\ r.stage = 2 -> [r EXCEPT !.stage = 3]
          [] op = "sync_config" /\ res = "ok" /\ r.stage # 2 ->
               [r EXCEPT !.stage = 1,
                         !.recs = Records(parse_config(canon'[i])),
                         !.names = NameKeys(i, folder'[i]),
                         !.snap_pure = r.pure]
          [] op = "reset_config" /\ res = "ok" ->
               [r EXCEPT !.stage = IF r.stage = 1 THEN 2 ELSE 0, !.pure = FALSE]
          [] op = "create_interface" /\ res = "ok" -> [r EXCEPT !.stage = 0, !.pure = TRUE]
          \* a diff that the request before it on i, a successful sync, made way for
          [] op = "get_config_diff" ->
               [r EXCEPT !.stage = 0, !.diffed = res = "ok" /\ r.stage \in {1, 3}]
          [] OTHER ->
               [r EXCEPT !.stage = 0,
                         !.pure = IF op \in {"update_peer", "delete_interface"}
                                  THEN FALSE ELSE @]

\* Request op of p on interface i (peer n), called with a, returns out
\* (res = "ok") or raises.
Respond(p, op, i, n, ow, res, a, out) ==
    /\ pc' = [pc EXCEPT ![p] = "idle"]
    /\ loc' = [loc EXCEPT ![p] = Idle]
    /\ last' = [last EXCEPT ![p] = [op |-> op, i |-> i, n |-> n, res |-> res, ow |-> ow,
                                    a |-> a, out |-> out]]
    /\ lastRes' = [lastRes EXCEPT ![i] = res]
    /\ rt' = [rt EXCEPT ![i] = RtNext(op, i, res)]

\* ... by a request that has no temp file.
DoneWith(p, op, i, n, ow, res, a, out) ==
    /\ Respond(p, op, i, n, ow, res, a, out)
    /\ UNCHANGED <<tmp, use_systemd>>

DoneAs(p, op, i, n, ow, res) == DoneWith(p, op, i, n, ow, res, <<>>, <<>>)

Done(p, res) ==
    DoneWith(p, loc[p].op, loc[p].i, loc[p].n, loc[p].ow, res,
             IF loc[p].op = "add_peer" THEN loc[p].a ELSE <<>>,
             IF res = "ok" THEN loc[p].ret ELSE <<>>)

Jump(p, label) ==
    /\ pc' = [pc EXCEPT ![p] = label]
    /\ UNCHANGED <<last, lastRes, rt>>

\* ... in a request that has no temp file.
Goto(p, label) ==
    /\ Jump(p, label)
    /\ UNCHANGED <<tmp, use_systemd>>

\* A request starts: one of the bounded number of requests of a behaviour.
Start(p, op, i, n, a) ==
    /\ pc[p] = "idle"
    /\ ops > 0
    /\ ops' = ops - 1
    /\ loc' = [loc EXCEPT ![p] = [Idle EXCEPT !.op = op, !.i = i, !.n = n, !.a = a,
                                                !.after = "return"]]

\* ------------------------------------------------------------------- files

WriteFile(fold, stem, lines) ==
    [x \in DOMAIN fold \cup {stem} |-> IF x = stem THEN lines ELSE fold[x]]

RemoveFile(fold, stem) == [x \in DOMAIN fold \ {stem} |-> fold[x]]

\* A removal that takes the interface's own fragment and leaves the others.
RemoveOwnFragment(i, fold) == RemoveFile(fold, i)

\* shutil.rmtree(interface_dir): every file of the folder goes.
rmtree(i, fold) == NoFiles

\* Writing new at offset 0 of a file that holds old: what lies past the end of
\* new stays (open(path, 'w') truncated the file when it was opened, not now).
Overlay(old, new) ==
    IF Len(old) > Len(new) THEN new \o SubSeq(old, Len(new) + 1, Len(old)) ELSE new

\* ------------------------------------------------------------- sync_config

\* An assembly that leaves the fragments' peers out.
AssembleNoPeers(fold, order, k) == <<>>

RECURSIVE AssemblePeers(_, _, _)
\* for file in os.listdir(interface_dir): config['Peers'].append(peer_data)
AssemblePeers(fold, order, k) ==
    IF k > Len(order) THEN <<>>
    ELSE LET peers == parse_config(fold[order[k]]).Peers
         IN  [n \in 1..Len(peers) |-> StripName(peers[n])]
             \o AssemblePeers(fold, order, k + 1)

\* The config sync_config assembles, the directory being listed in order.
Assemble(i, fold, order) ==
    LET config == parse_config(fold[i])
    IN  [Interface |-> config.Interface,
         Peers |-> config.Peers \o AssemblePeers(fold, order, 1)]

sync_config_call(p, in) ==
    \E i \in in.ifs :
        /\ Start(p, "sync_config", i, "", <<>>)
        /\ Goto(p, "sync_lock")
        /\ UNCHANGED <<dirs, folder, canon, flocks, keygen, ncreated>>

\* with acquire_write_lock(final_config_path):
SyncLock(p) ==
    /\ pc[p] = "sync_lock"
    /\ Lock(p, final_config_path(loc[p].i))
    /\ Goto(p, "sync_read")
    /\ UNCHANGED <<dirs, folder, canon, keygen, loc, ops, ncreated>>

\* sync_config ends, by return or by raise, in the request that called it:
\* the route itself, a peer operation's or an interface operation's
\* _sync_interface (which swallows what it raises).
SyncEnd(p, raised) ==
    CASE loc[p].after = "return" -> Done(p, IF raised THEN "NotFound" ELSE "ok")
      [] loc[p].after = "peer_return" -> Done(p, "ok")
      [] OTHER -> /\ Goto(p, loc[p].after)
                  /\ loc' = [loc EXCEPT ![p].cfg = <<>>]

\* if not os.path.exists(interface_config_path): raise; parse the fragments.
SyncRead(p) ==
    /\ pc[p] = "sync_read"
    /\ UNCHANGED <<dirs, folder, canon, keygen, ops, ncreated>>
    /\ LET i == loc[p].i
       IN  IF ~(i \in dirs /\ i \in DOMAIN folder[i])
           THEN /\ flocks' = Unlock(p, final_config_path(i), TRUE)
                /\ SyncEnd(p, TRUE)
           ELSE \E order \in Perms(PeerStems(i, folder[i])) :
                /\ loc' = [loc EXCEPT ![p].cfg = Assemble(i, folder[i], order)]
                /\ Goto(p, "sync_open")
                /\ UNCHANGED flocks

\* write_config(final_config_path, config): open(config_path, 'w') truncates.
SyncOpen(p) ==
    /\ pc[p] = "sync_open"
    /\ canon' = WriteFile(canon, loc[p].i, <<>>)
    /\ Goto(p, "sync_flush")
    /\ UNCHANGED <<dirs, folder, flocks, keygen, loc, ops, ncreated>>

\* ... the text reaches the file when the with-block closes it; the lock is
\* released and sync_config returns.
SyncFlush(p) ==
    /\ pc[p] = "sync_flush"
    /\ LET i == loc[p].i
           old == IF i \in DOMAIN canon THEN canon[i] ELSE <<>>
       IN  canon' = WriteFile(canon, i, Overlay(old, write_config(loc[p].cfg, None)))
    /\ UNCHANGED <<dirs, folder, keygen, ops, ncreated>>
    /\ flocks' = Unlock(p, final_config_path(loc[p].i), FALSE)
    /\ SyncEnd(p, FALSE)

\* ------------------------------------------------------------ reset_config

RECURSIVE BuildIndex(_, _, _, _)
\* existing_peers_by_key, existing_peers_by_ips of the folder's fragments
BuildIndex(fold, order, k, idx) ==
    IF k > Len(order) THEN idx
    ELSE LET peers == parse_config(fold[order[k]]).Peers
             peer == peers[1]
             public_key == Get(peer, "PublicKey")
             normalized == normalize_allowed_ips(Get(peer, "AllowedIPs"))
             name == Str(order[k])
         IN  IF peers = <<>> THEN BuildIndex(fold, order, k + 1, idx)
             ELSE BuildIndex(fold, order, k + 1,
                    [by_key |-> IF Truthy(public_key)
                                THEN Put(idx.by_key, public_key, name) ELSE idx.by_key,
                     by_ips |-> IF Truthy(normalized)
                                THEN Put(idx.by_ips, normalized, name) ELSE idx.by_ips])

\* A reset_config that consults the AllowedIPs index before the PublicKey index.
ResolveByIpsFirst(peer, idx, by_key, by_ips) ==
    LET public_key == Get(peer, "PublicKey")
        normalized == normalize_allowed_ips(Get(peer, "AllowedIPs"))
        n0 == Get(peer, "_name")
        n1 == IF ~Truthy(n0) /\ Truthy(normalized) /\ HasKey(by_ips, normalized)
              THEN Get(by_ips, normalized) ELSE n0
        n2 == IF ~Truthy(n1) /\ Truthy(public_key) /\ HasKey(by_key, public_key)
              THEN Get(by_key, public_key) ELSE n1
    IN  IF ~Truthy(n2) THEN Str(GeneratedName(idx + 1)) ELSE n2

\* The name reset_config gives the peer at 0-based position idx.
ResolveName(peer, idx, by_key, by_ips) ==
    LET public_key == Get(peer, "PublicKey")
        normalized == normalize_allowed_ips(Get(peer, "AllowedIPs"))
        n0 == Get(peer, "_name")
        n1 == IF ~Truthy(n0) /\ Truthy(public_key) /\ HasKey(by_key, public_key)
              THEN Get(by_key, public_key) ELSE n0
        n2 == IF ~Truthy(n1) /\ Truthy(normalized) /\ HasKey(by_ips, normalized)
              THEN Get(by_ips, normalized) ELSE n1
    IN  IF ~Truthy(n2) THEN Str(GeneratedName(idx + 1)) ELSE n2

RECURSIVE WritePeerFragments(_, _, _, _, _)
\* for idx, peer in enumerate(config.get('Peers', [])): write_config(peer_path, ...)
WritePeerFragments(fold, peers, idx, by_key, by_ips) ==
    IF idx >= Len(peers) THEN fold
    ELSE LET peer == peers[idx + 1]
             peer_name == ResolveName(peer, idx, by_key, by_ips)
             text == write_config([Interface |-> <<>>, Peers |-> <<StripName(peer)>>],
                                  peer_name)
         IN  WritePeerFragments(WriteFile(fold, peer_name[1], text), peers, idx + 1,
                                by_key, by_ips)

reset_config_call(p, in) ==
    \E i \in in.ifs :
        /\ Start(p, "reset_config", i, "", <<>>)
        /\ Goto(p, "reset_lock")
        /\ UNCHANGED <<dirs, folder, canon, flocks, keygen, ncreated>>

ResetLock(p) ==
    /\ pc[p] = "reset_lock"
    /\ Lock(p, final_config_path(loc[p].i))
    /\ Goto(p, "reset_read")
    /\ UNCHANGED <<dirs, folder, canon, keygen, loc, ops, ncreated>>

\* if not os.path.exists(final_config_path): raise; parse it; index the folder.
ResetRead(p) ==
    /\ pc[p] = "reset_read"
    /\ UNCHANGED <<dirs, folder, canon, keygen, ops, ncreated>>
    /\ LET i == loc[p].i
       IN  IF i \notin DOMAIN canon
           THEN /\ flocks' = Unlock(p, final_config_path(i), TRUE)
                /\ Done(p, "NotFound")
           ELSE \E order \in Perms(IF i \in dirs THEN PeerStems(i, folder[i]) ELSE {}) :
                LET idx == BuildIndex(folder[i], order, 1, [by_key |-> <<>>, by_ips |-> <<>>])
                IN  /\ loc' = [loc EXCEPT ![p].cfg = parse_config(canon[i]),
                                          ![p].by_key = idx.by_key,
                                          ![p].by_ips = idx.by_ips]
                    /\ Goto(p, "reset_rmtree")
                    /\ UNCHANGED flocks

\* if os.path.exists(interface_dir): shutil.rmtree(interface_dir)
ResetRmtree(p) ==
    /\ pc[p] = "reset_rmtree"
    /\ dirs' = dirs \ {loc[p].i}
    /\ folder' = [folder EXCEPT ![loc[p].i] = rmtree(loc[p].i, @)]
    /\ flocks' = RmtreeLocks(loc[p].i)
    /\ ncreated' = [ncreated EXCEPT ![loc[p].i] = 0]
    /\ Goto(p, "reset_interface")
    /\ UNCHANGED <<canon, keygen, loc, ops>>

\* os.makedirs(interface_dir, exist_ok=True); write_config(interface_config_path, ...)
ResetWriteInterface(p) ==
    /\ pc[p] = "reset_interface"
    /\ LET i == loc[p].i
       IN  /\ dirs' = dirs \cup {i}
           /\ folder' = [folder EXCEPT ![i] =
                 WriteFile(@, i, write_config([Interface |-> loc[p].cfg.Interface,
                                               Peers |-> <<>>], None))]
    /\ Goto(p, "reset_peers")
    /\ UNCHANGED <<canon, flocks, keygen, loc, ops, ncreated>>

\* The peer fragments are written, the lock is released, reset_config returns.
ResetWritePeers(p) ==
    /\ pc[p] = "reset_peers"
    /\ LET i == loc[p].i
       IN  /\ dirs' = dirs \cup {i}
           /\ folder' = [folder EXCEPT ![i] =
                 WritePeerFragments(@, loc[p].cfg.Peers, 0, loc[p].by_key, loc[p].by_ips)]
           /\ flocks' = Unlock(p, final_config_path(i), FALSE)
    /\ UNCHANGED <<canon, keygen, ops, ncreated>>
    /\ Done(p, "ok")

\* -------------------------------------------------------- create_interface

\* A create_interface without its existence check.
NoExistenceCheck(name) == FALSE

\* os.path.exists(interface_dir)
InterfaceDirExists(name) == name \in dirs

create_interface_call(p, in) ==
    \E name \in in.ifs :
        /\ Start(p, "create_interface", name, "",
                 [address |-> in.address, listen_port |-> in.listen_port])
        /\ Goto(p, "create_lock")
        /\ UNCHANGED <<dirs, folder, canon, flocks, keygen, ncreated>>

\* with acquire_write_lock(manager_lock):
CreateLock(p) ==
    /\ pc[p] = "create_lock"
    /\ Lock(p, manager_lock)
    /\ Goto(p, "create_check")
    /\ UNCHANGED <<dirs, folder, canon, keygen, loc, ops, ncreated>>

\* if os.path.exists(interface_dir): raise ConfigurationException
CreateCheck(p) ==
    /\ pc[p] = "create_check"
    /\ UNCHANGED <<dirs, folder, canon, keygen, ops, ncreated>>
    /\ IF InterfaceDirExists(loc[p].i)
       THEN /\ flocks' = Unlock(p, manager_lock, TRUE)
            /\ Done(p, "Conflict")
       ELSE /\ Goto(p, "create_mkdir")
            /\ UNCHANGED <<flocks, loc>>

\* os.makedirs(interface_dir, exist_ok=True); generate_keys()
CreateMakedirs(p) ==
    /\ pc[p] = "create_mkdir"
    /\ dirs' = dirs \cup {loc[p].i}
    /\ ncreated' = [ncreated EXCEPT ![loc[p].i] = @ + 1]
    /\ UNCHANGED <<folder, canon, ops>>
    /\ \/ /\ keygen < Len(PrivKeys)
          /\ keygen' = keygen + 1
          /\ loc' = [loc EXCEPT ![p].cfg =
                [Interface |-> <<[k |-> "PrivateKey", v |-> Str(PrivKeys[keygen + 1])],
                                 [k |-> "Address", v |-> loc[p].a.address],
                                 [k |-> "ListenPort", v |-> loc[p].a.listen_port]>>,
                 Peers |-> <<>>]]
          /\ Goto(p, "create_write")
          /\ UNCHANGED flocks
       \/ /\ keygen' = keygen
          /\ flocks' = Unlock(p, manager_lock, TRUE)
          /\ Done(p, "RuntimeError")

\* write_config(config_path, config); self._sync_interface(name)
CreateWrite(p) ==
    /\ pc[p] = "create_write"
    /\ dirs' = dirs \cup {loc[p].i}
    /\ folder' = [folder EXCEPT ![loc[p].i] =
                     WriteFile(@, loc[p].i, write_config(loc[p].cfg, None))]
    /\ loc' = [loc EXCEPT ![p].after = "create_unlock", ![p].cfg = <<>>]
    /\ Goto(p, "sync_lock")
    /\ UNCHANGED <<canon, flocks, keygen, ops, ncreated>>

\* The with-block ends; create_interface returns.
CreateUnlock(p) ==
    /\ pc[p] = "create_unlock"
    /\ flocks' = Unlock(p, manager_lock, FALSE)
    /\ UNCHANGED <<dirs, folder, canon, keygen, ops, ncreated>>
    /\ Done(p, "ok")

\* -------------------------------------------------------- delete_interface

delete_interface_call(p, in) ==
    \E name \in in.ifs :
        /\ Start(p, "delete_interface", name, "", <<>>)
        /\ Goto(p, "delif_lock")
        /\ UNCHANGED <<dirs, folder, canon, flocks, keygen, ncreated>>

DeleteInterfaceLock(p) ==
    /\ pc[p] = "delif_lock"
    /\ Lock(p, manager_lock)
    /\ Goto(p, "delif_rmtree")
    /\ UNCHANGED <<dirs, folder, canon, keygen, loc, ops, ncreated>>

\* if not os.path.exists(interface_dir): raise; shutil.rmtree(interface_dir)
DeleteInterfaceRmtree(p) ==
    /\ pc[p] = "delif_rmtree"
    /\ UNCHANGED <<canon, keygen, ops>>
    /\ IF ~InterfaceDirExists(loc[p].i)
       THEN /\ flocks' = Unlock(p, manager_lock, TRUE)
            /\ UNCHANGED <<dirs, folder, ncreated>>
            /\ Done(p, "NotFound")
       ELSE /\ dirs' = dirs \ {loc[p].i}
            /\ folder' = [folder EXCEPT ![loc[p].i] = rmtree(loc[p].i, @)]
            /\ ncreated' = [ncreated EXCEPT ![loc[p].i] = 0]
            /\ flocks' = RmtreeLocks(loc[p].i) \ {[p |-> p, file |-> lock_file(manager_lock)]}
            /\ Done(p, "ok")

\* -------------------------------------------------------- update_interface

update_interface_call(p, in) ==
    \E name \in in.ifs, listen_port \in in.ports :
        /\ Start(p, "update_interface", name, "", [listen_port |-> listen_port])
        /\ Goto(p, "updif_lock")
        /\ UNCHANGED <<dirs, folder, canon, flocks, keygen, ncreated>>

\* with acquire_write_lock(config_path): os.makedirs(os.path.dirname(lock_file))
\* makes the interface folder when it is not there.
UpdateInterfaceLock(p) ==
    /\ pc[p] = "updif_lock"
    /\ dirs' = dirs \cup {loc[p].i}
    /\ Lock(p, interface_config_path(loc[p].i))
    /\ Goto(p, "updif_read")
    /\ UNCHANGED <<folder, canon, keygen, loc, ops, ncreated>>

\* if not os.path.exists(config_path): raise; parse; config['Interface'][...] = ...
UpdateInterfaceRead(p) ==
    /\ pc[p] = "updif_read"
    /\ UNCHANGED <<dirs, folder, canon, keygen, ops, ncreated>>
    /\ LET i == loc[p].i
       IN  IF i \notin DOMAIN folder[i]
           THEN /\ flocks' = Unlock(p, interface_config_path(i), TRUE)
                /\ Done(p, "NotFound")
           ELSE LET config == parse_config(folder[i][i])
                IN  /\ loc' = [loc EXCEPT ![p].cfg =
                          [config EXCEPT !.Interface =
                              Put(@, "ListenPort", loc[p].a.listen_port)]]
                    /\ Goto(p, "updif_write")
                    /\ UNCHANGED flocks

\* write_config(config_path, config); self._sync_interface(name)
UpdateInterfaceWrite(p) ==
    /\ pc[p] = "updif_write"
    /\ dirs' = dirs \cup {loc[p].i}
    /\ folder' = [folder EXCEPT ![loc[p].i] =
                     WriteFile(@, loc[p].i, write_config(loc[p].cfg, None))]
    /\ loc' = [loc EXCEPT ![p].after = "updif_unlock", ![p].cfg = <<>>]
    /\ Goto(p, "sync_lock")
    /\ UNCHANGED <<canon, flocks, keygen, ops, ncreated>>

UpdateInterfaceUnlock(p) ==
    /\ pc[p] = "updif_unlock"
    /\ flocks' = Unlock(p, interface_config_path(loc[p].i), FALSE)
    /\ UNCHANGED <<dirs, folder, canon, keygen, ops, ncreated>>
    /\ Done(p, "ok")

\* ---------------------------------------------------------------- add_peer

RECURSIVE EntryIps(_, _)
\* The addresses of the entries of one AllowedIPs value that parse.
EntryIps(parts, k) ==
    IF k > Len(parts) THEN {}
    ELSE (IF ip_interface(Strip(parts[k])).ok
          THEN {ip_interface(Strip(parts[k])).ip} ELSE {})
         \cup EntryIps(parts, k + 1)

\* list_peers(interface): the first peer of every fragment that has one.
list_peers(i, fold) ==
    {[name |-> n, peer |-> parse_config(fold[n]).Peers[1]] :
        n \in {m \in PeerStems(i, fold) : parse_config(fold[m]).Peers # <<>>}}

\* used_ips: the interface's address and every address of every peer.
UsedIps(i, fold, if_address) ==
    {ip_interface(if_address).ip}
    \cup UNION {EntryIps(Split(IF HasKey(e.peer, "AllowedIPs")
                               THEN Get(e.peer, "AllowedIPs") ELSE <<>>, {","}), 1) :
                e \in list_peers(i, fold)}

\* Whether allowed_ips asks for discovery, and in which network.
Discovery(allowed_ips, if_net) ==
    LET s == Strip(allowed_ips)
        octets == OctetTable[s[1]]
        temp == ip_network(allowed_ips)
    IN  IF ~Truthy(allowed_ips)
        THEN [auto |-> TRUE, net |-> if_net]
        ELSE IF Contains(allowed_ips, ",")
        THEN [auto |-> FALSE, net |-> if_net]
        ELSE IF ~Contains(allowed_ips, "/")
        THEN IF Len(s) = 1 /\ s[1] \in DOMAIN OctetTable
                /\ (Len(octets) < 4 \/ octets[4] = 0)
             THEN [auto |-> TRUE,
                   net |-> Network(IpFromOctets([n \in 1..4 |->
                                       IF n <= Len(octets) THEN octets[n] ELSE 0]),
                                   IF Len(octets) < 4 THEN 8 * Len(octets) ELSE 24)]
             ELSE [auto |-> FALSE, net |-> if_net]
        ELSE IF temp.ok /\ temp.net.pfx < 32 /\ subnet_of(temp.net, if_net)
        THEN [auto |-> TRUE, net |-> temp.net]
        ELSE [auto |-> FALSE, net |-> if_net]

\* add_peer up to its key generation: the error it raises, or "ok" and the
\* AllowedIPs it will store.
add_peer_checks(i, name, allowed_ips) ==
    LET fold == folder[i]
        if_address == Get(parse_config(fold[i]).Interface, "Address")
        if_net == Network(ip_interface(if_address).ip, ip_interface(if_address).pfx)
        d == Discovery(allowed_ips, if_net)
        found == ScanHosts(FirstHost(d.net), LastHost(d.net), UsedIps(i, fold, if_address))
        literal == CommaNormalize(allowed_ips)
        parts == Split(literal, {","})
        final == IF d.auto THEN <<HostTok(found), "/", "32">> ELSE literal
        Fail(res) == [res |-> res, allowed_ips |-> <<>>]
    IN  IF i \notin dirs THEN Fail("NotFound")
        ELSE IF name \in DOMAIN fold THEN Fail("Conflict")
        ELSE IF i \notin DOMAIN fold THEN Fail("Invalid")
        ELSE IF ~Truthy(if_address) \/ ~ip_interface(if_address).ok THEN Fail("Invalid")
        ELSE IF d.auto /\ ~subnet_of(d.net, if_net) THEN Fail("Invalid")
        ELSE IF d.auto /\ found = -1 THEN Fail("NoAvailableIPs")
        ELSE IF ~d.auto /\ ~\E k \in 1..Len(parts) :
                              ip_network(parts[k]).ok /\ overlaps(ip_network(parts[k]).net, if_net)
             THEN Fail("Invalid")
        ELSE IF ~validate_ip_address(final, TRUE) THEN Fail("Invalid")
        ELSE [res |-> "ok", allowed_ips |-> final]

PeerConfig(public_key, allowed_ips) ==
    [Interface |-> <<>>,
     Peers |-> <<<<[k |-> "PublicKey", v |-> public_key],
                   [k |-> "AllowedIPs", v |-> allowed_ips],
                   [k |-> "Endpoint", v |-> <<>>],
                   [k |-> "PersistentKeepalive", v |-> None]>>>>]

\* add_peer from its call to generate_keys().
AddPeerCheck(p, in) ==
    /\ pc[p] = "idle"
    /\ ops > 0
    /\ ops' = ops - 1
    /\ UNCHANGED <<dirs, folder, canon, flocks, ncreated>>
    /\ \E i \in in.ifs, name \in in.names, allowed_ips \in in.addips, public_key \in in.addkeys :
        LET r == add_peer_checks(i, name, allowed_ips)
            \* the fragment to write, and the response add_peer returns in the end
            Write(key, private_key) ==
                /\ loc' = [loc EXCEPT ![p] =
                      [Idle EXCEPT !.op = "add_peer", !.i = i, !.n = name,
                                   !.a = allowed_ips, !.after = "peer_return",
                                   !.cfg = PeerConfig(key, r.allowed_ips),
                                   !.ret = [name |-> Str(name), public_key |-> key,
                                            private_key |-> private_key,
                                            allowed_ips |-> r.allowed_ips]]]
                /\ Goto(p, "add_write")
        IN  IF r.res # "ok"
            THEN /\ keygen' = keygen
                 /\ DoneWith(p, "add_peer", i, name, FALSE, r.res, allowed_ips, <<>>)
            ELSE IF Truthy(public_key)
            THEN /\ keygen' = keygen
                 /\ Write(public_key, None)
            ELSE \/ /\ keygen < Len(PubKeys)
                    /\ keygen' = keygen + 1
                    /\ Write(Str(PubKeys[keygen + 1]), Str(PrivKeys[keygen + 1]))
                 \/ /\ keygen' = keygen
                    /\ DoneWith(p, "add_peer", i, name, FALSE, "RuntimeError",
                                allowed_ips, <<>>)

\* write_config(peer_path, peer_config); self._sync_interface(interface)
AddPeerWrite(p) ==
    /\ pc[p] = "add_write"
    /\ dirs' = dirs \cup {loc[p].i}
    /\ folder' = [folder EXCEPT ![loc[p].i] =
                     WriteFile(@, loc[p].n, write_config(loc[p].cfg, None))]
    /\ loc' = [loc EXCEPT ![p].ow = loc[p].n \in DOMAIN folder[loc[p].i], ![p].cfg = <<>>]
    /\ Goto(p, "sync_lock")
    /\ UNCHANGED <<canon, flocks, keygen, ops, ncreated>>

\* ------------------------------------------------------------- update_peer

\* update_peer up to its write: the error it raises, or "ok" and the config.
update_peer_checks(i, peer_name, a) ==
    LET fold == folder[i]
        peer_config == parse_config(fold[peer_name])
        allowed_ips == IF Truthy(a.allowed_ips) THEN CommaNormalize(a.allowed_ips)
                       ELSE a.allowed_ips
        d0 == peer_config.Peers[1]
        d1 == IF a.allowed_ips # None THEN Put(d0, "AllowedIPs", allowed_ips) ELSE d0
        d2 == IF a.public_key = None THEN d1
              ELSE IF Truthy(a.public_key) THEN Put(d1, "PublicKey", a.public_key)
              ELSE Del(d1, "PublicKey")
        Fail(res) == [res |-> res, cfg |-> <<>>]
    IN  IF peer_name \notin DOMAIN fold THEN Fail("NotFound")
        ELSE IF peer_config.Peers = <<>> THEN Fail("Invalid")
        ELSE IF a.allowed_ips # None /\ ~validate_ip_address(allowed_ips, TRUE)
        THEN Fail("Invalid")
        ELSE IF Truthy(allowed_ips) /\ i \notin DOMAIN fold THEN Fail("TypeError")
        \* from utils.validators import validate_peer_name: no such name
        ELSE IF Truthy(a.new_name) /\ a.new_name # Str(peer_name) THEN Fail("ImportError")
        ELSE [res |-> "ok",
              cfg |-> [peer_config EXCEPT !.Peers = [@ EXCEPT ![1] = d2]]]

UpdatePeerCheck(p, in) ==
    /\ pc[p] = "idle"
    /\ ops > 0
    /\ ops' = ops - 1
    /\ UNCHANGED <<dirs, folder, canon, flocks, keygen, ncreated>>
    /\ \E i \in in.ifs, peer_name \in in.names, a \in in.upd :
        LET r == update_peer_checks(i, peer_name, a)
        IN  IF r.res # "ok"
            THEN DoneAs(p, "update_peer", i, peer_name, FALSE, r.res)
            ELSE /\ loc' = [loc EXCEPT ![p] =
                       [Idle EXCEPT !.op = "update_peer", !.i = i, !.n = peer_name,
                                    !.after = "peer_return", !.cfg = r.cfg]]
                 /\ Goto(p, "updp_write")

\* write_config(peer_path, peer_config); self._sync_interface(interface)
UpdatePeerWrite(p) ==
    /\ pc[p] = "updp_write"
    /\ dirs' = dirs \cup {loc[p].i}
    /\ folder' = [folder EXCEPT ![loc[p].i] =
                     WriteFile(@, loc[p].n, write_config(loc[p].cfg, None))]
    /\ loc' = [loc EXCEPT ![p].cfg = <<>>]
    /\ Goto(p, "sync_lock")
    /\ UNCHANGED <<canon, flocks, keygen, ops, ncreated>>

\* ------------------------------------------------------------- delete_peer

\* if not os.path.exists(peer_path): raise; os.remove(peer_path)
DeletePeerRemove(p, in) ==
    /\ pc[p] = "idle"
    /\ ops > 0
    /\ ops' = ops - 1
    /\ UNCHANGED <<dirs, canon, flocks, keygen, ncreated>>
    /\ \E i \in in.ifs, peer_name \in in.names :
        IF peer_name \notin DOMAIN folder[i]
        THEN /\ UNCHANGED folder
             /\ DoneAs(p, "delete_peer", i, peer_name, FALSE, "NotFound")
        ELSE /\ folder' = [folder EXCEPT ![i] = RemoveFile(@, peer_name)]
             /\ loc' = [loc EXCEPT ![p] =
                   [Idle EXCEPT !.op = "delete_peer", !.i = i, !.n = peer_name,
                                !.after = "peer_return"]]
             /\ Goto(p, "sync_lock")

\* ------------------------------------------------------------------ reads

\* list_interfaces(): the directories of the base directory.
list_interfaces == dirs

\* get_interface(name), get_peer(interface, peer_name) and list_peers(interface)
\* look for the interface fragment, the peer fragment and the folder: what
\* they raise when it is not there, "ok" when they go on to read it.
get_interface(name) ==
    IF name \in dirs /\ name \in DOMAIN folder[name] THEN "ok" ELSE "NotFound"

get_peer(interface, peer_name) ==
    IF interface \in dirs /\ peer_name \in DOMAIN folder[interface] THEN "ok" ELSE "NotFound"

list_peers_isdir(interface) == IF interface \in dirs THEN "ok" ELSE "NotFound"

\* --------------------------------------------------------- get_config_diff

\* A file opened for writing is empty from then on.
OpenTruncating(files, stem) == WriteFile(files, stem, <<>>)

\* with open(config_path, 'r'): the file is as it was.
OpenRead(files, stem) == files

\* One entry of folder_config.peers or current_config.peers.
ConfigDiffPeer(peer, name) ==
    [name |-> name,
     public_key |-> IF HasKey(peer, "PublicKey") THEN Get(peer, "PublicKey") ELSE <<>>,
     allowed_ips |-> IF HasKey(peer, "AllowedIPs") THEN Get(peer, "AllowedIPs") ELSE <<>>,
     endpoint |-> Get(peer, "Endpoint"),
     persistent_keepalive |-> Get(peer, "PersistentKeepalive")]

RECURSIVE FolderPeers(_, _, _)
\* for file in sorted(os.listdir(interface_dir)): folder_peers.append(...)
FolderPeers(fold, order, k) ==
    IF k > Len(order) THEN <<>>
    ELSE LET peers == parse_config(fold[order[k]]).Peers
         IN  [n \in 1..Len(peers) |->
                ConfigDiffPeer(peers[n],
                               IF Truthy(Get(peers[n], "_name"))
                               THEN Get(peers[n], "_name") ELSE Str(order[k]))]
             \o FolderPeers(fold, order, k + 1)

RECURSIVE MatchName(_, _, _, _, _)
\* for folder_peer in folder_peers: the name of the first one that matches
MatchName(folder_peers, k, peer_name, public_key, allowed_ips) ==
    IF k > Len(folder_peers) THEN peer_name
    ELSE LET folder_peer == folder_peers[k]
             norm_current == normalize_allowed_ips(allowed_ips)
             norm_folder == normalize_allowed_ips(folder_peer.allowed_ips)
         IN  IF \/ folder_peer.public_key = public_key
                \/ folder_peer.name = peer_name
                \/ norm_current # <<>> /\ norm_folder # <<>> /\ norm_current = norm_folder
             THEN folder_peer.name
             ELSE MatchName(folder_peers, k + 1, peer_name, public_key, allowed_ips)

\* for idx, peer in enumerate(final_config['Peers']): current_peers.append(...)
CurrentPeers(final_peers, folder_peers) ==
    [n \in 1..Len(final_peers) |->
        LET peer == final_peers[n]
            d == ConfigDiffPeer(peer, <<>>)
            peer_name == IF Truthy(Get(peer, "_name")) THEN Get(peer, "_name")
                         ELSE Str(GeneratedName(n))
        IN  ConfigDiffPeer(peer, MatchName(folder_peers, 1, peer_name,
                                           d.public_key, d.allowed_ips))]

\* get_config_diff up to the end of its pass over the folder.
get_config_diff_call(p, in) ==
    /\ pc[p] = "idle"
    /\ ops > 0
    /\ ops' = ops - 1
    /\ UNCHANGED <<dirs, folder, canon, flocks, keygen, ncreated>>
    /\ \E i \in in.ifs :
        IF ~(i \in dirs /\ i \in DOMAIN folder[i])
        THEN DoneWith(p, "get_config_diff", i, "", FALSE, "NotFound", <<>>, <<>>)
        ELSE /\ loc' = [loc EXCEPT ![p] =
                    [Idle EXCEPT !.op = "get_config_diff", !.i = i,
                                 !.cfg = FolderPeers(folder[i],
                                             SortedStems(PeerStems(i, folder[i])), 1)]]
             /\ Goto(p, "diff_current")

\* if os.path.exists(final_config_path): parse it, name its peers; return.
DiffCurrent(p) ==
    /\ pc[p] = "diff_current"
    /\ LET i == loc[p].i
           folder_peers == loc[p].cfg
           current_peers == IF i \in DOMAIN canon
                            THEN CurrentPeers(parse_config(canon[i]).Peers, folder_peers)
                            ELSE <<>>
       IN  /\ canon' = IF i \in DOMAIN canon THEN OpenRead(canon, i) ELSE canon
           /\ DoneWith(p, "get_config_diff", i, "", FALSE, "ok", <<>>,
                       [current_config |-> [peers |-> current_peers],
                        folder_config |-> [peers |-> folder_peers]])
    /\ UNCHANGED <<dirs, folder, flocks, keygen, ops, ncreated>>

\* ------------------------------------------------------------ apply_config

\* What run_command(["wg", "syncconf", ...]) can do: return, with or without
\* text on stderr, or raise.
SyncconfOutcomes ==
    {[kind |-> "ok", stderr |-> <<>>],
     [kind |-> "ok", stderr |-> <<"Warning: ", "key is world accessible">>],
     [kind |-> "CalledProcessError",
      stderr |-> <<"Unable to access interface: ", "No such device">>],
     [kind |-> "CalledProcessError", stderr |-> <<"Interface ", "Not Found">>],
     [kind |-> "CalledProcessError", stderr |-> <<"Configuration parsing error">>],
     [kind |-> "PermissionDeniedException", stderr |-> <<"Operation not permitted">>]}

\* ... and run_command of systemctl restart or of wg-quick up.
BringUpOutcomes ==
    {[kind |-> "ok", stderr |-> <<>>],
     [kind |-> "ok", stderr |-> <<"Warning: ", "interface restarted">>],
     [kind |-> "CalledProcessError", stderr |-> <<"Job for wg-quick failed">>]}

\* A failure is taken for that of a missing interface whatever it says.
AnyFailure(error_msg) == TRUE

\* "No such device" in error_msg or "not found" in error_msg.lower()
InterfaceMissing(error_msg) ==
    LET lower(tok) == IF tok = "Not Found" THEN "not found" ELSE tok
    IN  \/ Contains(error_msg, "No such device")
        \/ \E n \in 1..Len(error_msg) : lower(error_msg[n]) = "not found"

RECURSIVE CleanPeerLines(_)
\* for peer in config.get('Peers', []): f.write('\n[Peer]\n'); the truthy keys
CleanPeerLines(peers) ==
    IF peers = <<>> THEN <<>>
    ELSE <<BlankLine, SecLine("Peer")>> \o TruthyKvLines(Head(peers))
         \o CleanPeerLines(Tail(peers))

\* The text of the temp file: the keys wg syncconf supports, and the peers.
CleanConfig(config) ==
    LET keys == <<"PrivateKey", "ListenPort", "FwMark">>
        kept == SelectSeq(keys, LAMBDA key : HasKey(config.Interface, key))
    IN  <<SecLine("Interface")>>
        \o [n \in 1..Len(kept) |-> KvLine(kept[n], Get(config.Interface, kept[n]))]
        \o CleanPeerLines(config.Peers)

\* apply_config up to the parse of the canonical file.
apply_config_call(p, in) ==
    /\ pc[p] = "idle"
    /\ ops > 0
    /\ ops' = ops - 1
    /\ UNCHANGED <<dirs, folder, canon, flocks, keygen, ncreated>>
    /\ \E i \in in.ifs :
        IF i \notin DOMAIN canon
        THEN DoneWith(p, "apply_config", i, "", FALSE, "NotFound", <<>>, <<>>)
        ELSE /\ loc' = [loc EXCEPT ![p] =
                    [Idle EXCEPT !.op = "apply_config", !.i = i,
                                 !.cfg = parse_config(canon[i])]]
             /\ Goto(p, "apply_write")

\* with open(clean_config_path, 'w') as f: a file this creates has the mode
\* the process's umask leaves it.
ApplyWrite(p) ==
    /\ pc[p] = "apply_write"
    /\ LET i == loc[p].i
       IN  tmp' = WriteFile(tmp, i,
                    [lines |-> CleanConfig(loc[p].cfg),
                     mode |-> IF i \in DOMAIN tmp THEN tmp[i].mode ELSE "umask"])
    /\ loc' = [loc EXCEPT ![p].cfg = [cmds |-> <<>>, ran |-> <<>>, warnings |-> <<>>,
                                      res |-> "ok"]]
    /\ Jump(p, "apply_chmod")
    /\ UNCHANGED <<dirs, folder, canon, flocks, keygen, ops, ncreated, use_systemd>>

\* try: os.chmod(clean_config_path, 0o600) except OSError: pass
ApplyChmod(p) ==
    /\ pc[p] = "apply_chmod"
    /\ LET i == loc[p].i
       IN  \/ /\ i \in DOMAIN tmp
              /\ tmp' = [tmp EXCEPT ![i].mode = "0600"]
           \/ tmp' = tmp
    /\ Jump(p, "apply_syncconf")
    /\ UNCHANGED <<dirs, folder, canon, flocks, keygen, loc, ops, ncreated, use_systemd>>

\* run_command(["wg", "syncconf", interface, clean_config_path])
ApplySyncconf(p) ==
    /\ pc[p] = "apply_syncconf"
    /\ \E r \in SyncconfOutcomes :
        LET l == [loc[p].cfg EXCEPT !.cmds = <<"wg syncconf">>, !.ran = <<r>>]
        IN  IF r.kind = "ok"
            THEN /\ loc' = [loc EXCEPT ![p].cfg =
                        [l EXCEPT !.warnings = IF r.stderr # <<>> THEN <<r.stderr>>
                                               ELSE <<>>]]
                 /\ Goto(p, "apply_finally")
            ELSE IF r.kind = "CalledProcessError" /\ InterfaceMissing(r.stderr)
            THEN /\ loc' = [loc EXCEPT ![p].cfg = l]
                 /\ Goto(p, "apply_bring_up")
            ELSE /\ loc' = [loc EXCEPT ![p].cfg = [l EXCEPT !.res = "RuntimeError"]]
                 /\ Goto(p, "apply_finally")
    /\ UNCHANGED <<dirs, folder, canon, flocks, keygen, ops, ncreated>>

\* systemctl restart wg-quick@{interface}, or wg-quick up final_config_path
ApplyBringUp(p) ==
    /\ pc[p] = "apply_bring_up"
    /\ \E r \in BringUpOutcomes :
        LET l == [loc[p].cfg EXCEPT
                     !.cmds = Append(@, IF use_systemd THEN "systemctl restart"
                                        ELSE "wg-quick up"),
                     !.ran = Append(@, r)]
        IN  loc' = [loc EXCEPT ![p].cfg =
                IF r.kind = "ok"
                THEN [l EXCEPT !.warnings = IF r.stderr # <<>> THEN Append(@, r.stderr) ELSE @]
                ELSE [l EXCEPT !.res = "RuntimeError"]]
    /\ Goto(p, "apply_finally")
    /\ UNCHANGED <<dirs, folder, canon, flocks, keygen, ops, ncreated>>

\* finally: if os.path.exists(clean_config_path): os.remove(clean_config_path);
\* return "\n".join(warnings) if warnings else None, or raise RuntimeError.
ApplyFinally(p) ==
    /\ pc[p] = "apply_finally"
    /\ tmp' = IF loc[p].i \in DOMAIN tmp THEN RemoveFile(tmp, loc[p].i) ELSE tmp
    /\ LET l == loc[p].cfg
       IN  Respond(p, "apply_config", loc[p].i, "", FALSE, l.res, <<>>,
                   [cmds |-> l.cmds, ran |-> l.ran,
                    warnings |-> IF l.res = "ok" /\ l.warnings # <<>>
                                 THEN Join(l.warnings, "\n") ELSE None])
    /\ UNCHANGED <<dirs, folder, canon, flocks, keygen, ops, ncreated, use_systemd>>

\* -------------------------------------------------------------- get_state

\* str.lower() of the texts the commands print.
Lower(s) ==
    [n \in 1..Len(s) |->
        CASE s[n] = "No such device" -> "no such device"
          [] s[n] = "Does Not Exist" -> "does not exist"
          [] s[n] = "Not Found" -> "not found"
          [] s[n] = "Operation not permitted" -> "operation not permitted"
          [] s[n] = "Permission denied" -> "permission denied"
          [] OTHER -> s[n]]

\* run_command(command): the result, or the exception it raises instead.
run_command(r) ==
    CASE r.kind = "FileNotFoundError" -> [r EXCEPT !.kind = "CommandNotFoundException"]
      [] r.kind = "PermissionError" -> [r EXCEPT !.kind = "PermissionDeniedException"]
      [] /\ r.kind = "CalledProcessError"
         /\ \/ Contains(Lower(r.stderr), "permission denied")
            \/ Contains(Lower(r.stderr), "operation not permitted") ->
           [r EXCEPT !.kind = "PermissionDeniedException"]
      [] OTHER -> r

RECURSIVE ParseShow(_, _, _)
\* for line in output.split('\n'): the interface's properties and its peers
ParseShow(lines, state, current_peer) ==
    LET flushed == IF current_peer # <<>>
                   THEN [state EXCEPT !.peers = Append(@, current_peer)] ELSE state
        key == CASE Head(lines).k = "allowed ips" -> "allowed_ips"
                 [] Head(lines).k = "latest handshake" -> "latest_handshake"
                 [] OTHER -> Head(lines).k
        value == Strip(Head(lines).v)
    IN  IF lines = <<>> THEN flushed
        ELSE IF Head(lines).k = "interface" THEN ParseShow(Tail(lines), state, current_peer)
        ELSE IF Head(lines).k = "peer"
        THEN ParseShow(Tail(lines), flushed, <<[k |-> "public_key", v |-> value]>>)
        ELSE IF current_peer # <<>>
        THEN ParseShow(Tail(lines), state, Put(current_peer, key, value))
        ELSE IF Head(lines).k = "public key"
        THEN ParseShow(Tail(lines), [state EXCEPT !.public_key = value], current_peer)
        ELSE IF Head(lines).k = "listening port"
        THEN ParseShow(Tail(lines), [state EXCEPT !.listening_port = value], current_peer)
        ELSE ParseShow(Tail(lines), state, current_peer)

\* An error text that names only "No such device" as that of a missing device.
OnlyNoSuchDevice(error_msg) == Contains(error_msg, "No such device")

\* "does not exist" in error_msg.lower() or "no such device" in error_msg.lower()
DeviceMissing(error_msg) ==
    \/ Contains(Lower(error_msg), "does not exist")
    \/ Contains(Lower(error_msg), "no such device")

\* get_state(interface) when wg show does r and ip addr show gives address:
\* the state it returns, or the exception it lets through.
get_state(interface, r, address) ==
    LET result == run_command(r)
        error_msg == IF result.stderr # <<>> THEN result.stderr
                     ELSE <<"Command returned non-zero exit status 1.">>
        state == ParseShow(result.stdout,
                           [peers |-> <<>>, public_key |-> None, listening_port |-> None],
                           <<>>)
        Down(status, message) ==
            [interface |-> interface, status |-> status, message |-> message,
             peers |-> <<>>]
    IN  CASE result.kind = "ok" ->
               [interface |-> interface, peers |-> state.peers,
                public_key |-> state.public_key, listening_port |-> state.listening_port,
                address |-> address, status |-> "active",
                warnings |-> IF result.stderr # <<>> THEN result.stderr ELSE None]
          [] result.kind = "CalledProcessError" ->
               IF DeviceMissing(error_msg)
               THEN Down("not_found", <<"Interface '", interface, "' not found">>)
               ELSE Down("inactive", error_msg)
          \* except Exception as e: the exceptions of run_command are Exceptions
          [] result.kind \in {"CommandNotFoundException", "PermissionDeniedException"} ->
               Down("inactive", <<result.kind>>)
          [] OTHER -> [raised |-> result.kind]

\* GET /state: get_state and what it returns.
get_state_call(p, in) ==
    /\ pc[p] = "idle"
    /\ ops > 0
    /\ ops' = ops - 1
    /\ UNCHANGED <<dirs, folder, canon, flocks, keygen, loc, ncreated>>
    /\ \E i \in in.ifs, r \in in.show, address \in {None, in.address} :
        LET state == get_state(i, r, address)
        IN  DoneWith(p, "get_state", i, "", FALSE,
                     IF "raised" \in DOMAIN state THEN state.raised ELSE "ok",
                     r, state)

\* ---------------------------------------------------------- get_state_diff

\* A derivation that hands the private key back.
KeyItself(private_key) == {private_key}

\* get_public_key(private_key): what it can return as the key, the one
\* wg pubkey derives or "" when the command fails.
get_public_key(private_key) ==
    {<<>>} \cup {Str(PubKeys[n]) : n \in {m \in 1..Len(PrivKeys) : Str(PrivKeys[m]) = private_key}}

\* StateService._normalize_allowed_ips
state_normalize_allowed_ips(allowed_ips) ==
    IF ~Truthy(allowed_ips) THEN allowed_ips
    ELSE LET parts == SelectNonEmpty([n \in 1..Len(Split(allowed_ips, {","})) |->
                                         Strip(Split(allowed_ips, {","})[n])])
             network(part) == ip_network(part).net
             normalized == [n \in 1..Len(parts) |->
                 IF ip_interface(parts[n]).ok
                 THEN <<HostTok(network(parts[n]).base), "/",
                        CHOOSE t \in DOMAIN PfxTable : PfxTable[t] = network(parts[n]).pfx>>
                 \* str(IPv6Network("fd00::2")) is "fd00::2/128"
                 ELSE IF parts[n] = <<"fd00::2">> THEN <<"fd00::2", "/", "128">>
                 ELSE parts[n]]
         IN  Join(SortStrs(normalized), ",")

\* The "Peers" of _get_comparable_config and _get_comparable_state: the four
\* properties of each peer, read under keys, the None ones left out, sorted
\* by PublicKey.
NormalizedPeers(peers, keys) ==
    LET normalized_peer(peer) ==
            SelectSeq(<<[k |-> "PublicKey", v |-> Get(peer, keys[1])],
                        [k |-> "AllowedIPs",
                         v |-> state_normalize_allowed_ips(Get(peer, keys[2]))],
                        [k |-> "Endpoint", v |-> Get(peer, keys[3])],
                        [k |-> "PersistentKeepalive", v |-> Get(peer, keys[4])]>>,
                      LAMBDA e : e.v # None)
        sort_key(peer) == IF Get(peer, keys[1]) # None THEN Get(peer, keys[1]) ELSE <<>>
        order == CHOOSE f \in Perms(1..Len(peers)) :
                    \A a, b \in 1..Len(peers) :
                        a < b => /\ ~StrLess(sort_key(peers[f[b]]), sort_key(peers[f[a]]))
                                 /\ sort_key(peers[f[a]]) = sort_key(peers[f[b]])
                                      => f[a] < f[b]
    IN  [n \in 1..Len(peers) |-> normalized_peer(peers[order[n]])]

\* GET /state/diff: what the canonical file says against what wg show says.
get_state_diff_call(p, in) ==
    /\ pc[p] = "idle"
    /\ ops > 0
    /\ ops' = ops - 1
    /\ UNCHANGED <<dirs, folder, canon, flocks, keygen, loc, ncreated>>
    /\ \E i \in in.ifs :
        LET config == IF i \in DOMAIN canon THEN parse_config(canon[i])
                      ELSE [Interface |-> <<>>, Peers |-> <<>>]
            private_key == Get(config.Interface, "PrivateKey")
        IN  \E public_key \in IF Truthy(private_key) THEN get_public_key(private_key)
                               ELSE {None} :
            LET comparable_config ==
                    [Interface |-> [Address |-> Get(config.Interface, "Address"),
                                    ListenPort |-> Get(config.Interface, "ListenPort"),
                                    PublicKey |-> public_key],
                     Peers |-> NormalizedPeers(config.Peers,
                                   <<"PublicKey", "AllowedIPs", "Endpoint",
                                     "PersistentKeepalive">>)]
            IN  \E r \in in.show, address \in {None, in.address} :
                LET state == get_state(i, r, address)
                    get(f) == IF f \in DOMAIN state THEN state[f] ELSE None
                    comparable_state ==
                        IF get("status") = "not_found" THEN <<>>
                        ELSE [Interface |-> [Address |-> get("address"),
                                             ListenPort |-> get("listening_port"),
                                             PublicKey |-> get("public_key")],
                              Peers |-> NormalizedPeers(get("peers"),
                                            <<"public_key", "allowed_ips", "endpoint",
                                              "persistent_keepalive">>)]
                IN  IF "raised" \in DOMAIN state
                    THEN DoneWith(p, "get_state_diff", i, "", FALSE, state.raised, r, <<>>)
                    ELSE DoneWith(p, "get_state_diff", i, "", FALSE, "ok", r,
                                  [diff |-> IF comparable_config = comparable_state THEN <<>>
                                            ELSE [config |-> comparable_config,
                                                  state |-> comparable_state],
                                   status |-> "success"])

\* ------------------------------------------------- get_interface, get_peer

\* GET /interfaces/{name}: every property of the fragment but the private key.
get_interface_call(p, in) ==
    /\ pc[p] = "idle"
    /\ ops > 0
    /\ ops' = ops - 1
    /\ UNCHANGED <<dirs, folder, canon, flocks, keygen, loc, ncreated>>
    /\ \E name \in in.ifs :
        IF get_interface(name) # "ok"
        THEN DoneAs(p, "get_interface", name, "", FALSE, "NotFound")
        ELSE LET config == parse_config(folder[name][name])
                 private_key == Get(config.Interface, "PrivateKey")
                 get(k) == IF HasKey(config.Interface, k) THEN Get(config.Interface, k)
                           ELSE <<>>
             IN  \E public_key \in IF Truthy(private_key) THEN get_public_key(private_key)
                                    ELSE {<<>>} :
                    DoneWith(p, "get_interface", name, "", FALSE, "ok", <<>>,
                             [name |-> Str(name),
                              public_key |-> public_key,
                              address |-> get("Address"),
                              listen_port |-> get("ListenPort"),
                              post_up |-> Get(config.Interface, "PostUp"),
                              post_down |-> Get(config.Interface, "PostDown"),
                              dns |-> Get(config.Interface, "DNS")])

\* One peer as list_peers and get_peer return it.
PeerResponse(peer_name, peer_data) ==
    LET get(k) == IF HasKey(peer_data, k) THEN Get(peer_data, k) ELSE <<>>
    IN  [name |-> Str(peer_name),
         public_key |-> get("PublicKey"),
         allowed_ips |-> get("AllowedIPs"),
         endpoint |-> get("Endpoint"),
         persistent_keepalive |-> get("PersistentKeepalive")]

\* GET /interfaces/{interface}/peers: the peers, in no order of the model's.
list_peers_call(p, in) ==
    /\ pc[p] = "idle"
    /\ ops > 0
    /\ ops' = ops - 1
    /\ UNCHANGED <<dirs, folder, canon, flocks, keygen, loc, ncreated>>
    /\ \E i \in in.ifs :
        IF list_peers_isdir(i) # "ok"
        THEN DoneAs(p, "list_peers", i, "", FALSE, "NotFound")
        ELSE DoneWith(p, "list_peers", i, "", FALSE, "ok", <<>>,
                      {PeerResponse(e.name, e.peer) : e \in list_peers(i, folder[i])})

\* GET /interfaces/{interface}/peers/{name}
get_peer_call(p, in) ==
    /\ pc[p] = "idle"
    /\ ops > 0
    /\ ops' = ops - 1
    /\ UNCHANGED <<dirs, folder, canon, flocks, keygen, loc, ncreated>>
    /\ \E i \in in.ifs, peer_name \in in.names :
        IF get_peer(i, peer_name) # "ok"
        THEN DoneAs(p, "get_peer", i, peer_name, FALSE, "NotFound")
        ELSE IF parse_config(folder[i][peer_name]).Peers = <<>>
        THEN DoneAs(p, "get_peer", i, peer_name, FALSE, "ValueError")
        ELSE DoneWith(p, "get_peer", i, peer_name, FALSE, "ok", <<>>,
                      PeerResponse(peer_name, parse_config(folder[i][peer_name]).Peers[1]))

\* ------------------------------------------------- write_config: the mode

\* contains_private: a truthy PrivateKey in the interface section, or else in
\* one of the peers.
ContainsPrivate(config_data) ==
    \/ Truthy(Get(config_data.Interface, "PrivateKey"))
    \/ \E n \in 1..Len(config_data.Peers) : Truthy(Get(config_data.Peers[n], "PrivateKey"))

\* The calls of write_config of the specification of the modes: an interface
\* fragment, a canonical file with a peer, peer fragments, and records whose
\* PrivateKey is empty or is a peer's.
WriteIn ==
    LET Interface(key) == <<[k |-> "PrivateKey", v |-> key],
                            [k |-> "Address", v |-> <<"10.0.0.1", "/", "29">>]>>
        Peer(key) == <<[k |-> "PublicKey", v |-> <<"pub2">>],
                       [k |-> "PrivateKey", v |-> key],
                       [k |-> "AllowedIPs", v |-> <<"10.0.0.2", "/", "32">>]>>
    IN  [paths |-> {"wg0/wg0.conf", "wg0/a.conf", "wg0.conf"},
         configs |-> {[Interface |-> Interface(<<"priv1">>), Peers |-> <<>>],
                      [Interface |-> Interface(<<"priv1">>), Peers |-> <<Peer(None)>>],
                      [Interface |-> Interface(<<>>), Peers |-> <<>>],
                      [Interface |-> <<>>, Peers |-> <<Peer(None)>>],
                      [Interface |-> <<>>, Peers |-> <<Peer(<<"priv2">>)>>]}]

\* write_config(config_path, config_data) up to the end of its with-block:
\* open(config_path, 'w') creates the file with the mode the umask leaves, or
\* keeps the mode of the file that is there.
WriteConfigOpen(p, in) ==
    /\ pc[p] = "idle"
    /\ ops > 0
    /\ ops' = ops - 1
    /\ \E config_path \in in.paths, config_data \in in.configs :
        /\ tmp' = WriteFile(tmp, config_path,
                     [lines |-> write_config(config_data, None),
                      mode |-> IF config_path \in DOMAIN tmp THEN tmp[config_path].mode
                               ELSE "umask"])
        /\ loc' = [loc EXCEPT ![p] = [Idle EXCEPT !.op = "write_config", !.n = config_path,
                                                  !.cfg = config_data]]
    /\ Jump(p, "write_chmod")
    /\ UNCHANGED <<dirs, folder, canon, flocks, keygen, ncreated, use_systemd>>

\* try: os.chmod(config_path, 0o600 if contains_private else 0o640)
\* except OSError: print a warning
WriteConfigChmod(p) ==
    /\ pc[p] = "write_chmod"
    /\ \/ tmp' = [tmp EXCEPT ![loc[p].n].mode =
                      IF ContainsPrivate(loc[p].cfg) THEN "0600" ELSE "0640"]
       \/ tmp' = tmp
    /\ loc' = [loc EXCEPT ![p] = Idle]
    /\ Jump(p, "idle")
    /\ UNCHANGED <<dirs, folder, canon, flocks, keygen, ops, ncreated, use_systemd>>

\* ----------------------------------------------------------- AccessControl

\* ipaddress.ip_address(s): an IPv4 address and its integer, or the IPv6
\* address ::ffff:a.b.c.d and its integer as <<bits above the low 32, low 32
\* bits>>; ok = no ValueError.
ip_address(s) ==
    IF Len(s) = 1 /\ IsAddrTok(s[1])
    THEN [ok |-> TRUE, version |-> 4, ip |-> IpFromOctets(OctetTable[s[1]])]
    ELSE IF Len(s) = 2 /\ s[1] = "::ffff:" /\ IsAddrTok(s[2])
    THEN [ok |-> TRUE, version |-> 6,
          ip |-> <<65535, IpFromOctets(OctetTable[s[2]])>>]
    ELSE [ok |-> FALSE, version |-> 0, ip |-> 0]

\* AccessControl._compile_nets(entries): the networks of the entries that
\* parse, IPv4 ones in the model.
compile_nets(entries) ==
    LET stripped == SelectNonEmpty([n \in 1..Len(entries) |-> Strip(entries[n])])
        valid == SelectSeq(stripped, LAMBDA e : ip_interface(e).ok)
    IN  [n \in 1..Len(valid) |->
            [version |-> 4, base |-> ip_network(valid[n]).net.base,
             pfx |-> ip_network(valid[n]).net.pfx]]

\* AccessControl._ip_in_nets(ip_str, nets); ip in n is False when the
\* versions differ.
ip_in_nets(ip_str, nets) ==
    LET ip == ip_address(ip_str)
    IN  /\ ip.ok
        /\ \E n \in 1..Len(nets) :
              /\ ip.version = nets[n].version
              /\ nets[n].base <= ip.ip
              /\ ip.ip <= nets[n].base + Pow2(32 - nets[n].pfx) - 1

\* AccessControl.is_allowed(request)
is_allowed(self, request) ==
    LET remote == request.remote_addr
        xff == request.xff
        client_ip == IF xff # <<>> THEN Strip(Split(xff, {","})[1]) ELSE <<>>
        Decide(allowed, reason) == [allowed |-> allowed, reason |-> reason]
    IN  IF self.allowed_proxies = <<>>
        THEN IF self.allowed_ips = <<>>
             THEN Decide(TRUE, "no proxies configured and no allowed_ips -> allow all")
             ELSE IF ip_in_nets(remote, self.allowed_ips)
             THEN Decide(TRUE, "remote addr in allowed_ips")
             ELSE Decide(FALSE, "remote addr not in allowed_ips")
        ELSE IF ~ip_in_nets(remote, self.allowed_proxies)
        THEN Decide(FALSE, "request did not come from trusted proxy")
        ELSE IF self.allowed_ips = <<>>
        THEN Decide(TRUE, "Trusted proxy -> No allowed_ips configured -> allow all")
        ELSE IF client_ip # <<>> /\ ip_in_nets(client_ip, self.allowed_ips)
        THEN Decide(TRUE, "client ip from header in allowed_ips")
        ELSE Decide(FALSE, "client ip not allowed")

\* The configurations and the requests of the specification of AccessControl.
AclIn ==
    [allowed_proxies |-> {<<>>, <<<<"10.0.0.1">>>>, <<<<"10.0.0.0", "/", "30">>>>},
     allowed_ips |-> {<<>>, <<<<"10.0.0.0", "/", "24">>>>,
                      <<<<" ", "10.0.0.2">>, <<"no address">>, <<"10.0.1.1">>>>},
     remote_addr |-> {<<>>, <<"10.0.0.1">>, <<"10.0.0.5">>, <<"10.0.1.1">>, <<"10.9.0.2">>,
                      <<"::ffff:", "10.0.0.1">>, <<"::ffff:", "10.0.1.1">>},
     xff |-> {<<>>, <<"10.0.0.2">>, <<"10.0.1.1", ",", " ", "10.0.0.2">>,
              <<"::ffff:", "10.0.0.2">>, <<"10.9.0.2">>}]

\* AccessControl(allowed_proxies, allowed_ips): the instance the requests
\* are checked by from then on.
AccessControlNew(p, in) ==
    /\ pc[p] = "idle"
    /\ loc[p].op = "none"
    /\ \E allowed_proxies \in in.allowed_proxies, allowed_ips \in in.allowed_ips :
        loc' = [loc EXCEPT ![p] =
                   [Idle EXCEPT !.op = "AccessControl",
                                !.cfg = [allowed_proxies |-> compile_nets(allowed_proxies),
                                         allowed_ips |-> compile_nets(allowed_ips)]]]
    /\ UNCHANGED <<dirs, folder, canon, flocks, keygen, pc, ops, last, lastRes, ncreated,
                   rt, tmp, use_systemd>>

\* A request arrives and is_allowed decides on it.
is_allowed_call(p, in) ==
    /\ pc[p] = "idle"
    /\ loc[p].op = "AccessControl"
    /\ \E remote_addr \in in.remote_addr, xff \in in.xff :
        LET request == [remote_addr |-> remote_addr, xff |-> xff]
        IN  last' = [last EXCEPT ![p] =
                        [op |-> "is_allowed", i |-> "", n |-> "", res |-> "ok",
                         ow |-> FALSE, a |-> request,
                         out |-> is_allowed(loc[p].cfg, request)]]
    /\ UNCHANGED <<dirs, folder, canon, flocks, keygen, pc, loc, ops, lastRes, ncreated,
                   rt, tmp, use_systemd>>

\* --------------------------------------------------------- specifications

Step(p, in) ==
    \/ sync_config_call(p, in)
    \/ SyncLock(p)
    \/ SyncRead(p)
    \/ SyncOpen(p)
    \/ SyncFlush(p)
    \/ reset_config_call(p, in)
    \/ ResetLock(p)
    \/ ResetRead(p)
    \/ ResetRmtree(p)
    \/ ResetWriteInterface(p)
    \/ ResetWritePeers(p)
    \/ create_interface_call(p, in)
    \/ CreateLock(p)
    \/ CreateCheck(p)
    \/ CreateMakedirs(p)
    \/ CreateWrite(p)
    \/ CreateUnlock(p)
    \/ delete_interface_call(p, in)
    \/ DeleteInterfaceLock(p)
    \/ DeleteInterfaceRmtree(p)
    \/ update_interface_call(p, in)
    \/ UpdateInterfaceLock(p)
    \/ UpdateInterfaceRead(p)
    \/ UpdateInterfaceWrite(p)
    \/ UpdateInterfaceUnlock(p)
    \/ AddPeerCheck(p, in)
    \/ AddPeerWrite(p)
    \/ UpdatePeerCheck(p, in)
    \/ UpdatePeerWrite(p)
    \/ DeletePeerRemove(p, in)

\* Requests handled concurrently, one worker each.
Next == \E p \in Procs : Step(p, ConcIn)

Spec == Init /\ [][Next]_vars

\* reset_config and get_config_diff on files an administrator has edited.
EditNext ==
    \/ reset_config_call("p1", EditIn)
    \/ ResetLock("p1")
    \/ ResetRead("p1")
    \/ ResetRmtree("p1")
    \/ ResetWriteInterface("p1")
    \/ ResetWritePeers("p1")
    \/ get_config_diff_call("p1", EditIn)
    \/ DiffCurrent("p1")

EditSpec == EditInit /\ [][EditNext]_vars

\* config = parse_config(config_path), called on the file at config_path.
parse_config_call(p) ==
    /\ pc[p] = "idle"
    /\ ops > 0
    /\ ops' = ops - 1
    /\ \E i \in DOMAIN canon :
          DoneWith(p, "parse_config", i, "", FALSE, "ok", canon[i],
                   parse_config(canon[i]))
    /\ UNCHANGED <<dirs, folder, canon, flocks, keygen, ncreated>>

\* parse_config applied to a file.
ParseNext == parse_config_call("p1")

ParseSpec == ParseInit /\ [][ParseNext]_vars

\* Requests handled one at a time, with an AllowedIPs value outside the network.
UpdNext == Step("p1", UpdIn)

UpdSpec == UpdInit /\ [][UpdNext]_vars

\* One AllowedIPs value given to the normalization of ConfigService and to
\* the normalization of StateService.
normalize_allowed_ips_call(p) ==
    /\ pc[p] = "idle"
    /\ ops > 0
    /\ ops' = ops - 1
    /\ \E ips \in NormInputs :
          DoneWith(p, "normalize_allowed_ips", "wg0", "", FALSE, "ok", ips,
                   [config |-> normalize_allowed_ips(ips),
                    state |-> state_normalize_allowed_ips(ips)])
    /\ UNCHANGED <<dirs, folder, canon, flocks, keygen, ncreated>>

\* The normalizations applied to AllowedIPs values.
NormNext == \E p \in Procs : normalize_allowed_ips_call(p)

NormSpec == NormInit /\ [][NormNext]_vars

\* The positions of a request in the handlers of Step.
Labels ==
    {"idle", "sync_lock", "sync_read", "sync_open", "sync_flush",
     "reset_lock", "reset_read", "reset_rmtree", "reset_interface", "reset_peers",
     "create_lock", "create_check", "create_mkdir", "create_write", "create_unlock",
     "delif_lock", "delif_rmtree",
     "updif_lock", "updif_read", "updif_write", "updif_unlock",
     "add_write", "updp_write"}

\* The lock the request of p is about to take, if it is at a with-statement.
WantedLock(p) ==
    CASE pc[p] \in {"sync_lock", "reset_lock"} -> <<final_config_path(loc[p].i)>>
      [] pc[p] \in {"create_lock", "delif_lock"} -> <<manager_lock>>
      [] pc[p] = "updif_lock" -> <<interface_config_path(loc[p].i)>>
      [] OTHER -> <<>>

\* p is at a with-statement whose lock another request holds.
Waiting(p) == WantedLock(p) # <<>> /\ ~FlockEx(lock_file(WantedLock(p)[1]))

\* The worker thread of p runs: its request, started and not blocked in
\* flock, moves on to its next position.
Runs(p) ==
    /\ pc[p] # "idle"
    /\ ~Waiting(p)
    /\ \E label \in Labels \ {pc[p]} : pc' = [pc EXCEPT ![p] = label]

\* Concurrent requests on one interface under fair scheduling: a thread that
\* can run is not left waiting for ever.
FairNext == \E p \in Procs : Step(p, FairIn)

FairSpec ==
    /\ FairInit
    /\ [][FairNext]_vars
    /\ \A p \in Procs : WF_pc(Runs(p))

\* Requests handled one at a time.
SeqNext == Step("p1", SeqIn)

SeqSpec == SeqInit /\ [][SeqNext]_vars

\* Requests handled one at a time, add_peer with every form of allowed_ips.
PeerNext == Step("p1", PeerIn)

PeerSpec == PeerInit /\ [][PeerNext]_vars

\* The diff and apply requests.
ConfigStep(p, in) ==
    \/ get_config_diff_call(p, in)
    \/ DiffCurrent(p)
    \/ apply_config_call(p, in)
    \/ ApplyWrite(p)
    \/ ApplyChmod(p)
    \/ ApplySyncconf(p)
    \/ ApplyBringUp(p)
    \/ ApplyFinally(p)

\* Requests handled one at a time, diff and apply among them.
CfgNext == Step("p1", CfgIn) \/ ConfigStep("p1", CfgIn)

CfgSpec == CfgInit /\ [][CfgNext]_vars

\* Calls of write_config one after another; tmp holds the files they write.
WriteNext == WriteConfigOpen("p1", WriteIn) \/ WriteConfigChmod("p1")

WriteSpec == WriteInit /\ [][WriteNext]_vars

\* Requests on one interface handled concurrently, diff, apply and
\* get_state_diff among them.
RaceNext ==
    \E p \in Procs :
        \/ Step(p, RaceIn)
        \/ ConfigStep(p, RaceIn)
        \/ get_state_diff_call(p, RaceIn)

RaceSpec == RaceInit /\ [][RaceNext]_vars

\* An AccessControl and the requests it decides on.
AclNext == AccessControlNew("p1", AclIn) \/ is_allowed_call("p1", AclIn)

AclSpec == Init /\ [][AclNext]_vars

\* The requests that only read.
ReadStep(p, in) ==
    \/ get_state_call(p, in)
    \/ get_state_diff_call(p, in)
    \/ get_interface_call(p, in)
    \/ list_peers_call(p, in)
    \/ get_peer_call(p, in)
    \/ get_config_diff_call(p, in)
    \/ DiffCurrent(p)

\* Requests handled one at a time, the reading ones among them.
ReadNext == Step("p1", ReadIn) \/ ReadStep("p1", ReadIn)

ReadSpec == ReadInit /\ [][ReadNext]_vars

\* ------------------------------------------------------------- properties

Holds(p, lock_path) == [p |-> p, file |-> lock_file(lock_path)] \in flocks

\* The labels of sync_config between taking and releasing its lock.
SyncSection == {"sync_read", "sync_open", "sync_flush"}

InSync(p, i) == pc[p] \in SyncSection /\ loc[p].i = i

\* C1: of the sync_config calls on one interface, direct or nested in a peer
\* or interface operation, at most one at a time is between reading the
\* fragments and writing the canonical file, and it holds the lock; the call
\* about to write finds the file as its own open() left it, so what it leaves
\* is its own complete text; and whenever no call is writing, the canonical
\* file is the text write_config produces for one config.
C1_SyncsNeverMix ==
    \A i \in IfNames :
        /\ Cardinality({p \in Procs : InSync(p, i)}) <= 1
        /\ \A p \in Procs : InSync(p, i) => Holds(p, final_config_path(i))
        /\ \A p \in Procs : pc[p] = "sync_flush" /\ loc[p].i = i => canon[i] = <<>>
        /\ (i \in DOMAIN canon /\ ~\E p \in Procs : pc[p] = "sync_flush" /\ loc[p].i = i)
              => canon[i] = write_config(parse_config(canon[i]), None)

\* Two syncs of one existing interface with a peer, one nested in add_peer and
\* about to write, the other waiting for the lock.
C1_Witness ==
    \E p, q \in Procs :
        /\ p # q
        /\ pc[p] = "sync_flush" /\ pc[q] = "sync_lock"
        /\ loc[p].i = loc[q].i
        /\ loc[p].cfg.Peers # <<>>

\* C2: every step of sync, reset, add_peer and update_peer that changes the
\* folder or the canonical file of an interface is taken while holding the
\* exclusive lock keyed by that interface's canonical path.
C2_MutationsUnderCanonicalLock ==
    \A p \in Procs :
        pc[p] \in {"sync_open", "sync_flush", "reset_rmtree", "reset_interface",
                   "reset_peers", "add_write", "updp_write"}
            => Holds(p, final_config_path(loc[p].i))

\* No request is under way.
AllIdle == \A p \in Procs : pc[p] = "idle"

\* C3: when sync, reset, sync have run in a row on an interface, the canonical
\* file has the interface record and the multiset of peer records the first
\* sync produced.
C3_SyncResetSyncRoundTrip ==
    \A i \in IfNames :
        AllIdle /\ rt[i].stage = 3 => Records(parse_config(canon[i])) = rt[i].recs

\* C4: when sync then reset have run on a folder whose fragments all came
\* from add_peer, the folder has the (name, PublicKey) pairs it had before.
C4_NamesRecoveredByPublicKey ==
    \A i \in IfNames :
        AllIdle /\ rt[i].stage = 2 /\ rt[i].snap_pure => NameKeys(i, folder[i]) = rt[i].names

\* C5: with requests run one at a time, whenever the folder of an interface
\* exists and the last request on it returned success, the canonical file has
\* the interface record and the multiset of peer records assembled from the
\* folder.
C5_CanonicalNeverStale ==
    \A i \in IfNames :
        AllIdle /\ i \in dirs /\ lastRes[i] = "ok"
            => /\ i \in DOMAIN canon
               /\ i \in DOMAIN folder[i]
               /\ Records(parse_config(canon[i])) =
                    Records(Assemble(i, folder[i],
                               CHOOSE o \in Perms(PeerStems(i, folder[i])) : TRUE))

\* C6: a request that has ended, by return or by raise, holds no lock; a held
\* lock belongs to a request inside the block it guards; and while requests
\* are under way one of them is not waiting for a lock, so no request waits
\* for a lock that is never released.
C6_LocksReleased ==
    /\ \A h \in flocks : pc[h.p] # "idle"
    /\ \A p \in Procs :
          /\ Holds(p, final_config_path(loc[p].i))
                => pc[p] \in SyncSection \cup {"reset_read", "reset_rmtree",
                                               "reset_interface", "reset_peers"}
          /\ Holds(p, manager_lock)
                => loc[p].op \in {"create_interface", "delete_interface"}
    /\ (\E p \in Procs : pc[p] # "idle") => \E p \in Procs : pc[p] # "idle" /\ ~Waiting(p)

\* A sync has raised NotFound inside its block and another request has since
\* taken the same lock.
C6_Witness ==
    \E p, q \in Procs :
        /\ p # q
        /\ pc[p] = "idle"
        /\ last[p].op = "sync_config" /\ last[p].res = "NotFound"
        /\ pc[q] = "sync_read" /\ loc[q].i = last[p].i

\* C7: a sync, reset or peer request on interface A that waits for a lock
\* waits for a request on A, and requests of these kinds never hold the
\* manager-wide lock.
C7_InterfacesIndependent ==
    \A p \in Procs :
        /\ pc[p] \in {"sync_lock", "reset_lock"}
              => \A h \in flocks :
                    h.file = lock_file(final_config_path(loc[p].i))
                        => /\ loc[h.p].i = loc[p].i
                           /\ h.file # lock_file(manager_lock)
        /\ loc[p].op \in {"sync_config", "reset_config", "add_peer", "update_peer",
                          "delete_peer"}
              => ~Holds(p, manager_lock)

\* add_peer on wg0 writes the canonical file of wg0 while a create_interface
\* of wg1 holds the manager-wide lock.
C7_Witness ==
    \E p, q \in Procs :
        /\ Holds(p, manager_lock) /\ loc[p].op = "create_interface" /\ loc[p].i = "wg1"
        /\ loc[q].op = "add_peer" /\ loc[q].i = "wg0" /\ pc[q] = "sync_flush"

\* The labels of create_interface and delete_interface under the manager lock.
ManagerSection ==
    {"create_check", "create_mkdir", "create_write", "create_unlock", "delif_rmtree"}

\* C8: create_interface and delete_interface check and change the top-level
\* directory holding the manager-wide lock, which one request holds at a
\* time; since the folder of an interface was last removed at most one
\* create_interface of its name has passed the existence check, so at most
\* one has succeeded; and a create_interface that ends in a conflict changes
\* nothing on disk.
C8_CreateDeleteSerialized ==
    /\ [](/\ Cardinality({p \in Procs : Holds(p, manager_lock)}) <= 1
          /\ \A p \in Procs :
                (pc[p] \in ManagerSection \/ loc[p].after = "create_unlock")
                    => Holds(p, manager_lock)
          /\ \A i \in IfNames : ncreated[i] <= 1)
    /\ [][\A p \in Procs :
            (pc[p] = "create_check" /\ pc'[p] = "idle" /\ last'[p].res = "Conflict")
                => UNCHANGED <<dirs, folder, canon>>]_vars

\* Two create_interface calls of one name: one has created the interface and
\* is about to leave the block, the other waits for the manager-wide lock.
C8_Witness ==
    \E p, q \in Procs :
        /\ pc[p] = "create_unlock" /\ pc[q] = "create_lock"
        /\ loc[p].i = loc[q].i

\* C9: an add_peer that returns success has not written over a fragment that
\* was there.
C9_AddPeerNeverOverwrites ==
    \A p \in Procs :
        last[p].op = "add_peer" /\ last[p].res = "ok" => ~last[p].ow

\* C10: no two peer fragments of one interface hold the same PublicKey.
C10_PublicKeyUnique ==
    \A i \in IfNames :
        \A e1, e2 \in NameKeys(i, folder[i]) :
            Truthy(e1[2]) /\ e1[2] = e2[2] => e1[1] = e2[1]

\* The addresses network.hosts() yields.
HostSet(net) ==
    IF net.pfx >= 31 THEN net.base .. (net.base + Pow2(32 - net.pfx) - 1)
    ELSE (net.base + 1) .. (net.base + Pow2(32 - net.pfx) - 2)

\* The network of the interface fragment's Address.
IfNet(i) ==
    LET a == ip_interface(Get(parse_config(folder[i][i]).Interface, "Address"))
    IN  Network(a.ip, a.pfx)

\* The hosts of network S no peer of i other than n and not i itself uses.
FreeHosts(i, n, S) ==
    {h \in HostSet(S) :
        h \notin UsedIps(i, RemoveFile(folder[i], n),
                         Get(parse_config(folder[i][i]).Interface, "Address"))}

\* The AllowedIPs stored in the fragment of peer n of interface i.
StoredAllowedIPs(i, n) == Get(parse_config(folder[i][n]).Peers[1], "AllowedIPs")

\* The add_peer request r (an entry of last) was the latest request, and the
\* interface it names exists with its fragment.
AddPeerEnded(r) ==
    /\ AllIdle
    /\ r.op = "add_peer"
    /\ r.i \in dirs
    /\ r.i \in DOMAIN folder[r.i]

\* C11: an add_peer that allocates in a subnet S of the interface's network
\* stores the lowest host of S used neither by the interface nor by another
\* peer, as a /32, and it is rejected with "no available IPs" exactly when S
\* has no such host.
C11_LowestFreeHost ==
    \A p \in Procs :
        LET r == last[p]
            d == Discovery(r.a, IfNet(r.i))
            free == FreeHosts(r.i, r.n, d.net)
        IN  AddPeerEnded(r) =>
              /\ (r.res = "ok" /\ d.auto)
                    => /\ free # {}
                       /\ StoredAllowedIPs(r.i, r.n) =
                            <<HostTok(CHOOSE h \in free : \A g \in free : h <= g), "/", "32">>
              /\ r.res = "NoAvailableIPs" => d.auto /\ free = {}
              /\ (d.auto /\ subnet_of(d.net, IfNet(r.i)) /\ r.n \notin DOMAIN folder[r.i]
                    /\ free = {})
                    => r.res = "NoAvailableIPs"

\* The second allocation in 10.0.0.4/30 has been given 10.0.0.6/32.
C11_Witness ==
    \E p \in Procs :
        /\ AddPeerEnded(last[p])
        /\ last[p].res = "ok"
        /\ last[p].a = <<"10.0.0.4", "/", "30">>
        /\ StoredAllowedIPs(last[p].i, last[p].n) = <<"10.0.0.6", "/", "32">>

\* An allocation in 10.0.0.0/30 has been rejected: its hosts are the
\* interface's 10.0.0.1 and a peer's 10.0.0.2.
C11_WitnessExhausted ==
    \E p \in Procs :
        /\ AddPeerEnded(last[p])
        /\ last[p].res = "NoAvailableIPs"
        /\ last[p].a = <<"10.0.0.0", "/", "30">>

\* C12: an add_peer asking for allocation in a subnet that is not inside the
\* interface's network is rejected as invalid, and the step that rejects an
\* add_peer, for whatever reason, leaves the directories, every fragment and
\* every canonical file as they were; no add_peer fails after its write.
C12_RejectedAddPeerChangesNothing ==
    /\ [](\A p \in Procs :
            LET r == last[p]
                d == Discovery(r.a, IfNet(r.i))
                \* Every address of network S is an address of network N.
                AddressesWithin(S, N) ==
                    /\ N.base <= S.base
                    /\ S.base + Pow2(32 - S.pfx) <= N.base + Pow2(32 - N.pfx)
            IN  (AddPeerEnded(r) /\ d.auto /\ ~AddressesWithin(d.net, IfNet(r.i)))
                  => /\ r.res # "ok"
                     /\ r.n \notin DOMAIN folder[r.i] => r.res = "Invalid")
    /\ [][\A p \in Procs :
            \* process p's add_peer request is answered in this step with an error
            (/\ pc'[p] = "idle"
             /\ ops' # ops \/ pc[p] # "idle"
             /\ last'[p].op = "add_peer"
             /\ last'[p].res # "ok")
                => pc[p] = "idle" /\ UNCHANGED <<dirs, folder, canon>>]_vars

\* The shorthand 10.0 (10.0.0.0/16, wider than the interface's /24) has been
\* rejected as invalid while the interface has a peer.
C12_Witness ==
    \E p \in Procs :
        /\ AddPeerEnded(last[p])
        /\ last[p].a = <<"10.0">>
        /\ last[p].res = "Invalid"
        /\ PeerStems(last[p].i, folder[last[p].i]) # {}

\* C13: an add_peer given a literal address list succeeds only if an entry of
\* the list shares an address with the interface's network, and the fragment
\* then holds the list as given, less the blanks and the empty entries: the
\* same entries in the same order, joined by single commas.
C13_LiteralListKept ==
    \A p \in Procs :
        LET r == last[p]
            stored == StoredAllowedIPs(r.i, r.n)
            entries == Split(stored, {","})
            N == IfNet(r.i)
            Text(s) == SelectSeq(s, LAMBDA tok : tok \notin {" ", ","})
            SharesAddress(e) ==
                /\ ip_network(e).ok
                /\ LET S == ip_network(e).net
                   IN  /\ S.base <= N.base + Pow2(32 - N.pfx) - 1
                       /\ N.base <= S.base + Pow2(32 - S.pfx) - 1
        IN  (AddPeerEnded(r) /\ r.res = "ok" /\ ~Discovery(r.a, N).auto)
              => /\ Text(stored) = Text(r.a)
                 /\ \A k \in 1..Len(stored) : stored[k] # " "
                 /\ \A k \in 1..Len(entries) : entries[k] # <<>>
                 /\ \E k \in 1..Len(entries) : SharesAddress(entries[k])

\* The list " 10.9.0.2/32 , 10.0.0.2" has been accepted and stored as
\* "10.9.0.2/32,10.0.0.2".
C13_Witness ==
    \E p \in Procs :
        /\ AddPeerEnded(last[p])
        /\ last[p].res = "ok"
        /\ last[p].a = <<" ", "10.9.0.2", "/", "32", " ", ",", " ", "10.0.0.2">>
        /\ StoredAllowedIPs(last[p].i, last[p].n) = <<"10.9.0.2", "/", "32", ",", "10.0.0.2">>

\* C14: the canonical file a successful sync_config leaves is the interface
\* record followed by the peer records of the fragments taken in ascending
\* order of file name, whatever order the directory was listed in.
C14_SyncInFileNameOrder ==
    \A p \in Procs :
        LET i == last[p].i
        IN  (AllIdle /\ last[p].op = "sync_config" /\ last[p].res = "ok")
              => canon[i] = write_config(
                                Assemble(i, folder[i], SortedStems(PeerStems(i, folder[i]))),
                                None)

C16_DiffChangesNoFile ==
    [][\A p \in Procs :
          (\/ pc[p] = "diff_current"
           \/ pc[p] = "idle" /\ pc'[p] = "diff_current"
           \/ /\ pc[p] = "idle" /\ pc'[p] = "idle" /\ ops' # ops
              /\ last'[p].op = "get_config_diff")
            => UNCHANGED <<dirs, folder, canon, tmp, flocks>>]_vars

\* A diff of an interface with a peer and a canonical file has succeeded.
C16_Witness ==
    \E p \in Procs :
        /\ AllIdle
        /\ last[p].op = "get_config_diff"
        /\ last[p].res = "ok"
        /\ last[p].i \in DOMAIN canon
        /\ canon[last[p].i] # <<>>
        /\ PeerStems(last[p].i, folder[last[p].i]) # {}

\* C17: a sync_config, reset_config, apply_config or get_config_diff request
\* for an interface that has no folder (it was never created, or it was
\* deleted) ends with NotFound at the step that looks for the interface's
\* files, leaving the interface folders, the fragments and the canonical
\* files as they were; it goes no further.
C17_ConfigOpsOfMissingInterface ==
    [][\A p \in Procs :
          /\ (/\ \/ pc[p] = "sync_read" /\ loc[p].op = "sync_config"
                 \/ pc[p] = "reset_read" /\ loc[p].op = "reset_config"
              /\ loc[p].i \notin dirs)
                => /\ pc'[p] = "idle"
                   /\ last'[p].res = "NotFound"
                   /\ UNCHANGED <<dirs, folder, canon>>
          /\ (pc[p] = "idle" /\ pc'[p] \in {"apply_write", "diff_current"})
                => loc'[p].i \in dirs]_vars

\* C18: once delete_interface has succeeded the interface is not listed,
\* get_interface, list_peers and get_peer of it raise NotFound, and a
\* create_interface of the name made next passes its existence check; a
\* create_interface that succeeds leaves an interface whose folder and
\* canonical file hold no peer; a delete_interface of a name that has no
\* folder ends with NotFound and changes no file.
C18_DeletedInterfaceIsGone ==
    /\ [](\A p \in Procs :
            LET r == last[p]
            IN  /\ (AllIdle /\ r.op = "delete_interface" /\ r.res = "ok")
                     => /\ r.i \notin list_interfaces
                        /\ get_interface(r.i) = "NotFound"
                        /\ list_peers_isdir(r.i) = "NotFound"
                        /\ \A n \in CfgIn.names \cup {r.i} : get_peer(r.i, n) = "NotFound"
                /\ (r.op = "delete_interface" /\ r.res = "ok" /\ pc[p] = "create_check"
                      /\ loc[p].i = r.i)
                     => r.i \notin list_interfaces
                /\ (AllIdle /\ r.op = "create_interface" /\ r.res = "ok")
                     => /\ r.i \in list_interfaces
                        /\ get_interface(r.i) = "ok"
                        /\ PeerStems(r.i, folder[r.i]) = {}
                        /\ r.i \in DOMAIN canon
                        /\ parse_config(canon[r.i]).Peers = <<>>)
    /\ [][\A p \in Procs :
            (pc[p] = "delif_rmtree" /\ loc[p].i \notin dirs)
              => /\ pc'[p] = "idle"
                 /\ last'[p].op = "delete_interface"
                 /\ last'[p].res = "NotFound"
                 /\ UNCHANGED <<dirs, folder, canon, tmp>>]_vars

\* An interface whose peers the canonical file still lists has been deleted.
C18_Witness ==
    \E p \in Procs :
        /\ AllIdle
        /\ last[p].op = "delete_interface"
        /\ last[p].res = "ok"
        /\ last[p].i \in DOMAIN canon
        /\ parse_config(canon[last[p].i]).Peers # <<>>

\* An interface that had a peer has been deleted and created again.
C18_WitnessCreatedAgain ==
    \E p \in Procs :
        /\ AllIdle
        /\ last[p].op = "create_interface"
        /\ last[p].res = "ok"
        /\ keygen = 3

\* C19: the temp file of apply_config has mode 0600 whenever it holds the
\* reduced record.
C19_TempFileIsPrivate ==
    \A i \in DOMAIN tmp : tmp[i].lines # <<>> => tmp[i].mode = "0600"

\* C20: apply_config runs wg syncconf first. It runs a bring-up command only
\* when wg syncconf failed saying that the device does not exist or was not
\* found, and then exactly one: systemctl restart when use_systemd, wg-quick up
\* otherwise. Any other failure of wg syncconf, and a failure of the bring-up
\* command, end it with RuntimeError; when the last command it ran succeeded
\* it returns, with that command's stderr text as the warning, None if none.
C20_BringUpOnlyForMissingDevice ==
    \A p \in Procs :
        LET r == last[p]
            o == r.out
            n == Len(o.cmds)
            SaysMissing(msg) ==
                \E k \in 1..Len(msg) : msg[k] \in {"No such device", "Not Found", "not found"}
        IN  (AllIdle /\ r.op = "apply_config" /\ r.res # "NotFound")
              => /\ n \in {1, 2}
                 /\ Len(o.ran) = n
                 /\ o.cmds[1] = "wg syncconf"
                 /\ n = 2 <=> (o.ran[1].kind = "CalledProcessError" /\ SaysMissing(o.ran[1].stderr))
                 /\ n = 2 => o.cmds[2] = IF use_systemd THEN "systemctl restart"
                                         ELSE "wg-quick up"
                 /\ o.ran[n].kind # "ok" => r.res = "RuntimeError"
                 /\ o.ran[n].kind = "ok"
                      => /\ r.res = "ok"
                         /\ o.warnings = IF o.ran[n].stderr # <<>> THEN o.ran[n].stderr
                                         ELSE None

\* wg syncconf has found no device, the bring-up command has succeeded with
\* text on stderr, and apply_config has returned that text.
C20_Witness ==
    \E p \in Procs :
        /\ AllIdle
        /\ last[p].op = "apply_config"
        /\ last[p].res = "ok"
        /\ Len(last[p].out.cmds) = 2
        /\ last[p].out.warnings = <<"Warning: ", "interface restarted">>

\* C21: get_state never raises: whatever wg show does (prints the state,
\* exits non-zero with any text, is missing, is not permitted) it returns a
\* state whose status is active, not_found or inactive, active exactly when
\* the command succeeded and not_found when the error text says that the
\* device does not exist; get_state_diff returns status success likewise,
\* also for an interface that has no canonical file and no device.
C21_GetStateNeverRaises ==
    \A p \in Procs :
        LET r == last[p]
            says_missing ==
                /\ r.a.kind = "CalledProcessError"
                /\ \E n \in 1..Len(r.a.stderr) :
                      r.a.stderr[n] \in {"No such device", "does not exist", "Does Not Exist"}
        IN  /\ r.op = "get_state" =>
                  /\ r.res = "ok"
                  /\ r.out.status \in {"active", "not_found", "inactive"}
                  /\ r.out.status = "active" <=> r.a.kind = "ok"
                  /\ says_missing => r.out.status = "not_found"
            /\ r.op = "get_state_diff" => r.res = "ok" /\ r.out.status = "success"

\* get_state of an interface that was never created answered not_found to a
\* text in capitals, and get_state_diff of it answered success.
C21_Witness ==
    \E p \in Procs :
        /\ last[p].op \in {"get_state", "get_state_diff"}
        /\ last[p].i \notin dirs
        /\ last[p].i \notin DOMAIN canon
        /\ last[p].a.stderr = <<"Device ", "Does Not Exist">>
        /\ last[p].op = "get_state" => last[p].out.status = "not_found"
        /\ last[p].op = "get_state_diff" => last[p].out.status = "success"

\* C22: the PrivateKey of an interface is in no value that get_interface,
\* list_peers, get_peer, get_config_diff or get_state_diff returns (what they
\* return depends on it through the derived public key at most), and the
\* private key add_peer generates for a peer is in its response only: no
\* file holds a private key but as the PrivateKey of an [Interface] section,
\* and never the one an add_peer returned.
C22_PrivateKeysRedacted ==
    LET secret(v) == \E n \in 1..Len(v), k \in 1..Len(PrivKeys) : v[n] = PrivKeys[k]
        clean(rec) == \A f \in DOMAIN rec : ~secret(rec[f])
        clean_dict(d) == \A n \in 1..Len(d) : ~secret(d[n].v)
        clean_all(peers) == \A n \in 1..Len(peers) : clean(peers[n])
        clean_side(c) ==
            \/ c = <<>>
            \/ /\ clean(c.Interface)
               /\ \A n \in 1..Len(c.Peers) : clean_dict(c.Peers[n])
        clean_file(lines) ==
            LET config == parse_config(lines)
            IN  /\ clean_dict(Del(config.Interface, "PrivateKey"))
                /\ \A n \in 1..Len(config.Peers) : clean_dict(config.Peers[n])
        files == UNION {{folder[i][n] : n \in DOMAIN folder[i]} : i \in IfNames}
                 \cup {canon[i] : i \in DOMAIN canon}
    IN  /\ \A lines \in files : clean_file(lines)
        /\ \A p \in Procs :
            LET r == last[p]
            IN  r.res = "ok" =>
                CASE r.op \in {"get_interface", "get_peer"} -> clean(r.out)
                  [] r.op = "list_peers" -> \A e \in r.out : clean(e)
                  [] r.op = "get_config_diff" ->
                       /\ clean_all(r.out.current_config.peers)
                       /\ clean_all(r.out.folder_config.peers)
                  [] r.op = "get_state_diff" ->
                       \/ r.out.diff = <<>>
                       \/ /\ clean_side(r.out.diff.config)
                          /\ clean_side(r.out.diff.state)
                  [] r.op = "add_peer" /\ r.out.private_key # None ->
                       \A lines \in files : \A n \in 1..Len(lines) :
                           lines[n].t = "kv" => lines[n].v # r.out.private_key
                  [] OTHER -> TRUE

\* get_interface returned the derived public key of an interface that has a
\* peer whose keys add_peer generated.
C22_Witness ==
    \E p \in Procs, i \in IfNames :
        /\ last[p].op = "get_interface"
        /\ last[p].i = i
        /\ last[p].res = "ok"
        /\ last[p].out.public_key # <<>>
        /\ i \in DOMAIN canon
        /\ parse_config(canon[i]).Peers # <<>>
        /\ keygen >= 2

\* C23: when a call of write_config has returned, the file it wrote has mode
\* 0600 if the record has a truthy PrivateKey, in the interface section or in
\* a peer, and 0640 otherwise: every file that holds a PrivateKey has mode
\* 0600 and every other one 0640.
C23_ModeFollowsPrivateKey ==
    pc["p1"] = "idle" =>
        \A config_path \in DOMAIN tmp :
            LET holds_key == \E n \in 1..Len(tmp[config_path].lines) :
                                /\ tmp[config_path].lines[n].t = "kv"
                                /\ tmp[config_path].lines[n].k = "PrivateKey"
                                /\ Truthy(tmp[config_path].lines[n].v)
            IN  tmp[config_path].mode = IF holds_key THEN "0600" ELSE "0640"

\* C24: an IPv4-mapped IPv6 address ::ffff:a.b.c.d is matched against the
\* IPv4 allow-list by a.b.c.d: with no proxies configured a request from it
\* is allowed exactly when the one from a.b.c.d would be; and with trusted
\* proxies configured a request whose remote address is not one of them is
\* denied whatever X-Forwarded-For says.
C24_MappedAddressesMatch ==
    LET self == loc["p1"].cfg
        request == last["p1"].a
        decision == last["p1"].out
    IN  last["p1"].op = "is_allowed" =>
            /\ /\ self.allowed_proxies = <<>>
               /\ Len(request.remote_addr) = 2
               /\ request.remote_addr[1] = "::ffff:"
               => decision.allowed =
                      is_allowed(self, [request EXCEPT !.remote_addr = Tail(@)]).allowed
            /\ /\ self.allowed_proxies # <<>>
               /\ ~ip_in_nets(request.remote_addr, self.allowed_proxies)
               => ~decision.allowed

\* C25: two add_peer calls for different names of one interface that leave
\* the address to add_peer, run at the same time and both succeed, get
\* different addresses, neither the interface's own: when one of them
\* returns, its address is not the one the other, still under way, has chosen.
C25_ConcurrentAutoAddressesDiffer ==
    [][\A p, q \in Procs :
        (/\ p # q
         /\ pc[p] # "idle"
         /\ pc'[p] = "idle"
         /\ last'[p].op = "add_peer"
         /\ last'[p].res = "ok"
         /\ last'[p].a = None
         /\ loc[q].op = "add_peer"
         /\ loc[q].a = None
         /\ loc[q].i = last'[p].i
         /\ loc[q].n # last'[p].n)
        => /\ last'[p].out.allowed_ips # loc[q].ret.allowed_ips
           /\ last'[p].i \in DOMAIN folder[last'[p].i]
              => ip_interface(last'[p].out.allowed_ips).ip
                 # ip_interface(Get(parse_config(folder[last'[p].i][last'[p].i]).Interface,
                                    "Address")).ip]_vars

\* C26: a reset running at the same time never discards the fragment a
\* successful add_peer or update_peer wrote: when reset_config returns, the
\* fragment of every peer mutation that has written and is yet to return
\* (it waits for the canonical lock, and returns success whatever its sync
\* does) is in the folder, with the public key add_peer is going to report.
C26_ResetKeepsWrittenFragments ==
    [][\A p, q \in Procs :
        (/\ p # q
         /\ pc[q] = "reset_peers"
         /\ pc'[q] = "idle"
         /\ loc[p].op \in {"add_peer", "update_peer"}
         /\ pc[p] = "sync_lock"
         /\ loc[p].i = loc[q].i)
        => /\ loc[p].n \in DOMAIN folder'[loc[p].i]
           /\ loc[p].op = "add_peer"
              => LET peers == parse_config(folder'[loc[p].i][loc[p].n]).Peers
                 IN  /\ peers # <<>>
                     /\ Get(peers[1], "PublicKey") = loc[p].ret.public_key]_vars

\* C27: apply_config, get_config_diff and get_state_diff never read a
\* canonical file that a sync running at the same time has opened for
\* writing and not yet written: what they parse is a complete file.
C27_ReadersSeeCompleteCanonical ==
    [][\A p, q \in Procs :
        LET reads(i) ==
                \/ pc[p] = "diff_current" /\ pc'[p] = "idle" /\ loc[p].i = i
                \/ pc[p] = "idle" /\ pc'[p] = "apply_write" /\ loc'[p].i = i
                \/ /\ pc[p] = "idle"
                   /\ pc'[p] = "idle"
                   /\ ops' # ops
                   /\ last'[p].op = "get_state_diff"
                   /\ last'[p].i = i
        IN  p # q /\ pc[q] = "sync_flush" => ~reads(loc[q].i)]_vars

\* C28: reset_config writes one fragment for each peer of the canonical
\* file, under names that differ from each other and from the interface's:
\* when it has returned, the folder has as many peer fragments as the
\* canonical file has peers, and the interface fragment is the interface's.
C28_ResetOneFragmentPerPeer ==
    \A p \in Procs :
        LET i == last[p].i
        IN  /\ pc[p] = "idle"
            /\ last[p].op = "reset_config"
            /\ last[p].res = "ok"
            => /\ Cardinality(PeerStems(i, folder[i])) = Len(parse_config(canon[i]).Peers)
               /\ i \in DOMAIN folder[i]
               /\ parse_config(folder[i][i]).Peers = <<>>

\* C29: update_interface of a name that list_interfaces does not have fails
\* with NotFound and leaves the interfaces as they were: neither of its
\* steps, taking the lock and looking for the fragment, changes what
\* list_interfaces returns.
C29_UpdateOfMissingChangesNothing ==
    [][\A p \in Procs :
        /\ (/\ pc[p] = "updif_lock"
            /\ pc'[p] # pc[p]
            /\ loc[p].i \notin list_interfaces)
           => list_interfaces' = list_interfaces
        /\ (/\ pc[p] = "updif_read"
            /\ pc'[p] # pc[p]
            /\ loc[p].i \notin DOMAIN folder[loc[p].i])
           => /\ pc'[p] = "idle"
              /\ last'[p].res = "NotFound"
              /\ list_interfaces' = list_interfaces]_vars

\* C30: whenever no request is under way, every name list_interfaces returns
\* has its interface fragment: get_interface of it does not fail with
\* NotFound, also after requests that failed and after delete_interface ran
\* at the same time as peer operations.
C30_ListedInterfacesHaveFragment ==
    AllIdle => \A name \in list_interfaces : get_interface(name) = "ok"


\* C31: two update_interface calls on one interface are never both between
\* reading and rewriting the interface fragment, and no update_interface is
\* between its read and its rewrite while a reset of the same interface has
\* deleted the folder and not yet written the interface fragment again.
C31_UpdateInterfaceExclusive ==
    \A p \in Procs : \A q \in Procs \ {p} :
        (pc[p] = "updif_write" /\ loc[q].i = loc[p].i)
            => pc[q] \notin {"updif_write", "reset_interface"}


\* C32: a request holds locks only in the orders manager lock then canonical
\* lock, or interface fragment lock then canonical lock: a request that is
\* about to take the manager lock or a fragment lock holds no lock, a request
\* about to take a canonical lock does not hold it already; and under fair
\* scheduling every request that has started ends, by return or by raise.
C32_NoDeadlock ==
    /\ [](\A p \in Procs :
            /\ WantedLock(p) # <<>> => ~Holds(p, WantedLock(p)[1])
            /\ pc[p] \in {"create_lock", "delif_lock", "updif_lock"}
                  => \A h \in flocks : h.p # p)
    /\ \A p \in Procs : (pc[p] # "idle") ~> (pc[p] = "idle")

\* A request that holds the manager lock or a fragment lock waits for the
\* canonical lock, which the request of another worker holds.
C32_Witness ==
    \E p \in Procs :
        /\ pc[p] = "sync_lock"
        /\ Waiting(p)
        /\ \E h \in flocks : h.p = p


\* C33: a request that ends with NotFound or with a validation error held no
\* lock in the step before it reported the error: the checks that reject a
\* request come before its first with acquire_write_lock.
C33_RejectedBeforeAnyLock ==
    [][\A p \in Procs :
          (/\ pc[p] # "idle"
           /\ pc'[p] = "idle"
           /\ last'[p].res \in {"NotFound", "ValueError"})
              => \A h \in flocks : h.p # p]_vars


\* C34: reset indexes the fragments of the folder as it is before the folder
\* is deleted, by PublicKey and by normalized AllowedIPs; and the fragment it
\* writes for the canonical peer at position N is named by the peer's name
\* comment if it has one, else by the indexed fragment with its PublicKey,
\* else by the indexed fragment with its normalized AllowedIPs, else peer{N}.
C34_ResetNamePriority ==
    [][LET p == "p1"
           i == loc[p].i
           KeyOf(n) == Get(parse_config(folder[i][n]).Peers[1], "PublicKey")
           IpsOf(n) == normalize_allowed_ips(
                           Get(parse_config(folder[i][n]).Peers[1], "AllowedIPs"))
           peers == loc[p].cfg.Peers
           Named(N) ==
               LET peer == peers[N]
                   key == Get(peer, "PublicKey")
                   ips == normalize_allowed_ips(Get(peer, "AllowedIPs"))
               IN  IF HasKey(peer, "_name") THEN Get(peer, "_name")
                   ELSE IF HasKey(loc[p].by_key, key) THEN Get(loc[p].by_key, key)
                   ELSE IF HasKey(loc[p].by_ips, ips) THEN Get(loc[p].by_ips, ips)
                   ELSE Str(GeneratedName(N))
       IN  /\ (pc[p] = "reset_read" /\ pc'[p] = "reset_rmtree") =>
                 /\ \A key \in {<<"pub1">>, <<"pub2">>, <<"U1">>} :
                       IF \E n \in PeerStems(i, folder[i]) : KeyOf(n) = key
                       THEN /\ HasKey(loc'[p].by_key, key)
                            /\ KeyOf(Get(loc'[p].by_key, key)[1]) = key
                       ELSE ~HasKey(loc'[p].by_key, key)
                 /\ \A ips \in {<<"10.0.0.2", "/", "32">>, <<"10.0.0.3", "/", "32">>} :
                       IF \E n \in PeerStems(i, folder[i]) : IpsOf(n) = ips
                       THEN /\ HasKey(loc'[p].by_ips, ips)
                            /\ IpsOf(Get(loc'[p].by_ips, ips)[1]) = ips
                       ELSE ~HasKey(loc'[p].by_ips, ips)
           /\ (pc[p] = "reset_peers" /\ pc'[p] = "idle") =>
                 \A N \in 1..Len(peers) :
                     /\ Named(N)[1] \in DOMAIN folder'[i]
                     /\ (\A M \in (N + 1)..Len(peers) : Named(M) # Named(N))
                           => parse_config(folder'[i][Named(N)[1]]).Peers
                                = <<<<[k |-> "_name", v |-> Named(N)]>>
                                    \o StripName(peers[N])>>]_vars

\* A reset has named one peer by its PublicKey although another fragment had
\* its AllowedIPs, and another peer, of unknown key, by its AllowedIPs.
C34_Witness ==
    /\ pc["p1"] = "idle"
    /\ last["p1"].op = "reset_config" /\ last["p1"].res = "ok"
    /\ LET peers == parse_config(canon["wg0"]).Peers
       IN  /\ ~HasKey(peers[1], "_name") /\ ~HasKey(peers[2], "_name")
           /\ Get(peers[1], "PublicKey") = <<"pub1">>
           /\ Get(peers[1], "AllowedIPs") = <<"10.0.0.3">>
           /\ Get(peers[2], "PublicKey") = <<"U1">>
           /\ Get(peers[2], "AllowedIPs") = <<"10.0.0.3">>
           /\ DOMAIN folder["wg0"] = {"wg0", "a", "b"}
           /\ Get(parse_config(folder["wg0"]["a"]).Peers[1], "PublicKey") = <<"pub1">>
           /\ Get(parse_config(folder["wg0"]["b"]).Peers[1], "PublicKey") = <<"U1">>


\* C35: the peer that a [Peer] header opens has a _name exactly when the line
\* immediately before the header is a comment with text, and the name is that
\* text: after an [Interface] section as well as after another peer, and not
\* when a blank line or any other line separates the comment from the header.
\* Stated of the files that end with a [Peer] header: the last peer of the
\* result is the named one, or else the header adds no peer to the result.
C35_NameFromCommentBeforeHeader ==
    \A p \in Procs :
        (last[p].op = "parse_config" /\ last[p].a # <<>>
            /\ last[p].a[Len(last[p].a)] = SecLine("Peer")) =>
        LET lines == last[p].a
            h == Len(lines)
            Peers == last[p].out.Peers
        IN  IF h > 1 /\ lines[h - 1].t = "cmt" /\ Strip(lines[h - 1].v) # <<>>
            THEN /\ Peers # <<>>
                 /\ Peers[Len(Peers)] = <<[k |-> "_name", v |-> Strip(lines[h - 1].v)]>>
            ELSE Peers = parse_config(SubSeq(lines, 1, h - 1)).Peers


\* C36: no fragment and no canonical file holds a line "_name = ...": a
\* peer's name is kept in the file name and in a comment line only.
C36_NoNameLine ==
    /\ \A i \in IfNames : \A n \in DOMAIN folder[i] :
          \A k \in 1..Len(folder[i][n]) :
              ~(folder[i][n][k].t = "kv" /\ folder[i][n][k].k = "_name")
    /\ \A i \in DOMAIN canon :
          \A k \in 1..Len(canon[i]) : ~(canon[i][k].t = "kv" /\ canon[i][k].k = "_name")


\* C38: in the answer of get_config_diff a canonical peer with a name comment
\* keeps that name; one without takes the name of a folder peer with its
\* PublicKey if there is one, else of a folder peer named peer{N}, else of a
\* folder peer with its normalized AllowedIPs, wherever those folder peers
\* stand in the folder's list.
C38_DiffNameByCriterion ==
    \A p \in Procs :
        (pc[p] = "idle" /\ last[p].op = "get_config_diff" /\ last[p].res = "ok") =>
        LET final_peers == parse_config(canon[last[p].i]).Peers
            current == last[p].out.current_config.peers
            fps == {last[p].out.folder_config.peers[k] :
                        k \in 1..Len(last[p].out.folder_config.peers)}
        IN  \A N \in 1..Len(final_peers) :
                LET peer == final_peers[N]
                    by_key == {fp \in fps : fp.public_key = Get(peer, "PublicKey")}
                    by_gen == {fp \in fps : fp.name = Str(GeneratedName(N))}
                    by_ips == {fp \in fps :
                                  normalize_allowed_ips(fp.allowed_ips)
                                    = normalize_allowed_ips(Get(peer, "AllowedIPs"))}
                IN  IF HasKey(peer, "_name") THEN current[N].name = Get(peer, "_name")
                    ELSE IF by_key # {} THEN current[N].name \in {fp.name : fp \in by_key}
                    ELSE IF by_gen # {} THEN current[N].name = Str(GeneratedName(N))
                    ELSE by_ips # {} => current[N].name \in {fp.name : fp \in by_ips}


\* C37: an update_peer whose AllowedIPs is 10.9.0.2/32, the value every
\* update_peer of this specification is given and no address of which lies in
\* the interface's network 10.0.0.0/29, does not succeed.
C37_UpdatePeerOutsideNetworkRejected ==
    \A p \in Procs :
        (pc[p] = "idle" /\ last[p].op = "update_peer") => last[p].res # "ok"


\* C39: ConfigService._normalize_allowed_ips and
\* StateService._normalize_allowed_ips give the same result for every
\* AllowedIPs string.
C39_NormalizationsAgree ==
    \A p \in Procs :
        last[p].op = "normalize_allowed_ips" => last[p].out.config = last[p].out.state

\* C40: the normalization of ConfigService is idempotent, every entry of its
\* result has an explicit prefix, /32 on a bare IPv4 address and /128 on a
\* bare IPv6 address, and two values whose comma-separated entries are the
\* same up to their order have the same result.
C40_NormalizeIdempotentOrderInsensitive ==
    LET Entries(x) ==
            LET parts == Split(x, {","})
            IN  BagOf(SelectNonEmpty([n \in 1..Len(parts) |-> Strip(parts[n])]))
        Norm(p) == last[p].out.config
    IN  \A p \in Procs : last[p].op = "normalize_allowed_ips" =>
            /\ normalize_allowed_ips(Norm(p)) = Norm(p)
            /\ LET result == SelectNonEmpty(Split(Norm(p), {","}))
                   given == SelectNonEmpty(Split(last[p].a, {",", " "}))
               IN  /\ \A n \in 1..Len(result) : Contains(result[n], "/")
                   /\ \A n \in 1..Len(given) :
                         Len(given[n]) = 1 =>
                             \E k \in 1..Len(result) :
                                 result[k] = given[n] \o <<"/", IF given[n] = <<"fd00::2">>
                                                                THEN "128" ELSE "32">>
            /\ \A q \in Procs :
                  (last[q].op = "normalize_allowed_ips"
                     /\ Entries(last[q].a) = Entries(last[p].a))
                      => Norm(q) = Norm(p)

\* Two values with the same two entries in opposite orders, one of them a
\* bare IPv6 address, have been normalized.
C40_Witness ==
    /\ last["p1"].op = "normalize_allowed_ips"
    /\ last["p2"].op = "normalize_allowed_ips"
    /\ last["p1"].a = <<"fd00::2", ",", "10.0.0.2">>
    /\ last["p2"].a = <<"10.0.0.2", ",", " ", "fd00::2">>

====
